---- MODULE Spec2Model ----
(***************************************************************************)
(* A model of the terminal text buffer (TextBuffer, textBuffer.cpp): the   *)
(* row storage allocator, the circular row index, the cursor coordinator,  *)
(* line renditions, the hyperlink registry, scroll marks and reflow.       *)
(*                                                                         *)
(* A buffer is a record b; every method of TextBuffer is an operator that  *)
(* takes the buffer and returns the buffer it leaves behind.  The state    *)
(* variables are the fields of the one live buffer; Self assembles them    *)
(* into a record and Install writes a record back.                         *)
(***************************************************************************)
EXTENDS Integers, Sequences, FiniteSets, TLC

\* ------------------------------------------------------------------ bounds
\* Largest buffer width and height a constructor or resize is given.
MaxWidth == 2
MaxHeight == 2
\* Cap on the number of GetMutableRowByOffset calls made on one instance.
MaxMutations == 4
\* Cap on the number of TextBuffer instances constructed in one run.
MaxInstances == 2
\* No hyperlink id is handed out from this one on.
MaxHyperlinkId == 3
\* No mark is added to a buffer that holds this many.
MaxMarks == 2
\* _commitReadAheadRowCount (textBuffer.hpp), scaled down to the model's heights.
CommitReadAheadRowCount == 1
\* Distance between the initial mutation ids of two instances
\* (0x100000000 in the source), scaled down to the model's mutation counts.
MutationIdStride == 64

\* ---------------------------------------------------------------- helpers
Min(a, b) == IF a < b THEN a ELSE b
Max(a, b) == IF a > b THEN a ELSE b

\* The % of C++ on int: the quotient truncates towards zero, so the
\* remainder has the sign of the dividend.
CRem(a, n) == IF a >= 0 THEN a % n ELSE 0 - ((0 - a) % n)

\* ------------------------------------------------------------- attributes
\* A TextAttribute: a colour and a hyperlink id (0 = no hyperlink).
TextAttribute(color, link) == [color |-> color, link |-> link]
DefaultAttribute == TextAttribute(0, 0)

\* ----------------------------------------------------------------- ROW
\* Cells: " " blank, "a" a narrow glyph, "W"/"w" the leading and trailing
\* half of a two-column glyph.
NarrowCells == {" ", "a"}
IsTrailer(cell) == cell = "w"

\* The content of a slot that holds no constructed ROW.
Unconstructed == [unconstructed |-> TRUE]

\* ROW::ROW(chars, indices, width, attributes)
RowNew(width, attr) ==
    [chars |-> [c \in 1..width |-> " "],
     attr |-> [c \in 1..width |-> attr],
     wrapForced |-> FALSE,
     doubleBytePadded |-> FALSE,
     lineRendition |-> "SingleWidth"]

\* ROW::Reset(attr)
RowReset(row, attr) == RowNew(Len(row.chars), attr)

\* ROW::_clampedColumnInclusive(v)
ClampedColumnInclusive(row, col) == Max(0, Min(Len(row.chars), col))

\* ROW::_clampedColumn(v)
ClampedColumn(row, col) == Max(0, Min(Len(row.chars) - 1, col))

\* ROW::GetReadableColumnCount()
RowGetReadableColumnCount(row) ==
    IF row.lineRendition = "SingleWidth" THEN Len(row.chars) ELSE Len(row.chars) \div 2

\* First column of the glyph that covers column col (WriteHelper's colExtBeg).
ExtBegin(chars, col) ==
    IF col > 0 /\ col < Len(chars) /\ IsTrailer(chars[col + 1]) THEN col - 1 ELSE col

\* One past the last column of the glyph that covers column col - 1
\* (WriteHelper::Finish's colExtEnd).
RECURSIVE ExtEnd(_, _)
ExtEnd(chars, col) ==
    IF col < Len(chars) /\ IsTrailer(chars[col + 1]) THEN ExtEnd(chars, col + 1) ELSE col

\* The cells of one glyph: a narrow glyph is its character, a two-column
\* glyph is a leading and a trailing half.
GlyphCells(ch, width) == IF width = 2 THEN <<"W", "w">> ELSE <<ch>>

\* A ROW that writes the cells of a glyph that fit and drops the others.
RowReplaceCharactersClipped(row, columnBegin, width, ch) ==
    LET n == Len(row.chars)
        colBeg == ClampedColumnInclusive(row, columnBegin)
        glyph == GlyphCells(ch, width)
    IN  IF colBeg >= n THEN row
        ELSE [row EXCEPT !.chars =
                 [c \in 1..n |->
                     IF c - 1 >= colBeg /\ c - 1 < colBeg + width THEN glyph[c - colBeg]
                     ELSE row.chars[c]]]

\* ROW::ReplaceCharacters(columnBegin, width, chars): writes one glyph of
\* `width` columns; a glyph that does not fit before the end of the row is
\* not written and the columns up to the end are blanked; the halves of wide
\* glyphs that the write cuts are blanked too.
RowReplaceCharacters(row, columnBegin, width, ch) ==
    LET n == Len(row.chars)
        colBeg == ClampedColumnInclusive(row, columnBegin)
        fits == colBeg + width <= n
        colEnd == IF fits THEN colBeg + width ELSE colBeg
        extBeg == ExtBegin(row.chars, colBeg)
        extEnd == IF fits THEN ExtEnd(row.chars, colEnd) ELSE n
        glyph == GlyphCells(ch, width)
    IN  IF colBeg >= n THEN row
        ELSE [row EXCEPT !.chars =
                 [c \in 1..n |->
                     IF c - 1 >= colBeg /\ c - 1 < colEnd THEN glyph[c - colBeg]
                     ELSE IF c - 1 >= extBeg /\ c - 1 < extEnd THEN " "
                     ELSE row.chars[c]]]

\* ROW::SetAttrToEnd(columnBegin, attr)
RowSetAttrToEnd(row, columnBegin, attr) ==
    LET colBeg == ClampedColumnInclusive(row, columnBegin)
    IN  [row EXCEPT !.attr = [c \in 1..Len(row.chars) |->
                                 IF c - 1 >= colBeg THEN attr ELSE row.attr[c]]]

\* ROW::ReplaceAttributes(beginIndex, endIndex, attr)
RowReplaceAttributes(row, beginIndex, endIndex, attr) ==
    [row EXCEPT !.attr = [c \in 1..Len(row.chars) |->
                             IF c - 1 >= beginIndex /\ c - 1 < endIndex THEN attr
                             ELSE row.attr[c]]]

\* ROW::GetHyperlinks(): the hyperlink ids of the row's attribute runs.
RowGetHyperlinks(row) ==
    {row.attr[c].link : c \in {k \in 1..Len(row.chars) : row.attr[k].link # 0}}

\* ROW::MeasureRight(): one past the last column that is not blank.
RowMeasureRight(row) ==
    LET used == {c \in 1..Len(row.chars) : row.chars[c] # " "}
    IN  IF used = {} THEN 0 ELSE CHOOSE c \in used : \A d \in used : d <= c

\* ROW::AdjustToGlyphStart(column)
RowAdjustToGlyphStart(row, column) ==
    ExtBegin(row.chars, ClampedColumn(row, column))

\* ------------------------------------------------------ state variables
VARIABLES
    _width,                       \* TextBuffer::_width
    _height,                      \* TextBuffer::_height
    _firstRow,                    \* TextBuffer::_firstRow
    _commitWatermark,             \* in row slots from _buffer
    constructed,                  \* slot -> number of live ROW objects in it
    rows,                         \* slot -> ROW (slot 0 is the scratchpad)
    _cursor,                      \* Cursor position [x, y]
    _lastMutationId,
    _currentAttributes,
    _initialAttributes,
    _isActiveBuffer,
    _hyperlinkMap,                \* id -> URI
    _hyperlinkCustomIdMap,        \* <<custom id, hash(URI)>> -> id
    _currentHyperlinkId,
    _marks,                       \* sequence of ScrollMark
    s_lastMutationIdInitialValue, \* the static seed of the mutation ids
    renderer,                     \* notifications issued by the last call
    rotation,                     \* history: _firstRow when it was last assigned
                                  \* outright, and the rotations since
    screenInfo,                   \* SCREEN_INFORMATION::OutputMode and the cursor's
                                  \* delayed end-of-line wrap
    writing,                      \* where the WriteCharsLegacy in progress is
    ret                           \* what the last call was

vars == <<_width, _height, _firstRow, _commitWatermark, constructed, rows,
          _cursor, _lastMutationId, _currentAttributes, _initialAttributes,
          _isActiveBuffer, _hyperlinkMap, _hyperlinkCustomIdMap,
          _currentHyperlinkId, _marks, s_lastMutationIdInitialValue,
          renderer, rotation, screenInfo, writing, ret>>

\* The live buffer as a record.
Self ==
    [width |-> _width, height |-> _height, firstRow |-> _firstRow,
     commitWatermark |-> _commitWatermark, constructed |-> constructed,
     rows |-> rows, cursor |-> _cursor, lastMutationId |-> _lastMutationId,
     currentAttributes |-> _currentAttributes,
     initialAttributes |-> _initialAttributes,
     isActiveBuffer |-> _isActiveBuffer,
     hyperlinkMap |-> _hyperlinkMap,
     hyperlinkCustomIdMap |-> _hyperlinkCustomIdMap,
     currentHyperlinkId |-> _currentHyperlinkId,
     marks |-> _marks,
     rotation |-> rotation,
     screenInfo |-> screenInfo,
     writing |-> writing,
     renderer |-> <<>>]

\* The live buffer becomes b.
Install(b) ==
    /\ _width' = b.width
    /\ _height' = b.height
    /\ _firstRow' = b.firstRow
    /\ _commitWatermark' = b.commitWatermark
    /\ constructed' = b.constructed
    /\ rows' = b.rows
    /\ _cursor' = b.cursor
    /\ _lastMutationId' = b.lastMutationId
    /\ _currentAttributes' = b.currentAttributes
    /\ _initialAttributes' = b.initialAttributes
    /\ _isActiveBuffer' = b.isActiveBuffer
    /\ _hyperlinkMap' = b.hyperlinkMap
    /\ _hyperlinkCustomIdMap' = b.hyperlinkCustomIdMap
    /\ _currentHyperlinkId' = b.currentHyperlinkId
    /\ _marks' = b.marks
    /\ rotation' = b.rotation
    /\ screenInfo' = b.screenInfo
    /\ writing' = b.writing
    /\ renderer' = b.renderer

\* The flags of SCREEN_INFORMATION::OutputMode the write path reads.
ENABLE_PROCESSED_OUTPUT == "ENABLE_PROCESSED_OUTPUT"
ENABLE_WRAP_AT_EOL_OUTPUT == "ENABLE_WRAP_AT_EOL_OUTPUT"
DISABLE_NEWLINE_AUTO_RETURN == "DISABLE_NEWLINE_AUTO_RETURN"

\* No WriteCharsLegacy is in progress: `it` is the text from the iterator
\* `it` to `end`, `text` is state.text of the _writeCharsLegacyUnprocessed
\* that runs; the other fields are history of the call: the text it was
\* given, the cursor row and the number of rotations when it started, what
\* became of a delayed wrap, and the control characters handled so far.
NotWriting ==
    [it |-> <<>>, text |-> <<>>, given |-> <<>>, from |-> [y |-> 0, rotations |-> 0],
     delayed |-> "none", handled |-> <<>>]

\* ------------------------------------------------- buffer management
\* TextBuffer::TextBuffer + _reserve: an address range of height + 1 row
\* slots, nothing committed; seed is the value fetched from
\* s_lastMutationIdInitialValue.
NewTextBuffer(width, height, defaultAttributes, isActiveBuffer, seed) ==
    LET w == Max(width, 1)
        h == Max(height, 1)
    IN  [width |-> w, height |-> h, firstRow |-> 0,
         commitWatermark |-> 0,
         constructed |-> [s \in 0..h |-> 0],
         rows |-> [s \in 0..h |-> Unconstructed],
         cursor |-> [x |-> 0, y |-> 0],
         lastMutationId |-> seed,
         currentAttributes |-> defaultAttributes,
         initialAttributes |-> defaultAttributes,
         isActiveBuffer |-> isActiveBuffer,
         hyperlinkMap |-> <<>>,
         hyperlinkCustomIdMap |-> <<>>,
         currentHyperlinkId |-> 1,
         marks |-> <<>>,
         rotation |-> [from |-> 0, count |-> 0],
         screenInfo |-> [OutputMode |-> {ENABLE_PROCESSED_OUTPUT, ENABLE_WRAP_AT_EOL_OUTPUT},
                         delayedEOLWrap |-> FALSE,
                         delayedAt |-> [x |-> 0, y |-> 0]],
         writing |-> NotWriting,
         renderer |-> <<>>]

\* TextBuffer::_construct(until): constructs the ROWs of the slots from
\* the watermark up to (excluding) until, moving the watermark along.
_construct(b, until) ==
    LET fresh(s) == b.commitWatermark <= s /\ s < until
    IN  [b EXCEPT
            !.constructed = [s \in DOMAIN @ |-> IF fresh(s) THEN @[s] + 1 ELSE @[s]],
            !.rows = [s \in DOMAIN @ |->
                         IF fresh(s) THEN RowNew(b.width, b.initialAttributes) ELSE @[s]],
            !.commitWatermark = Max(@, until)]

\* A commit of no more than the row asked for.
_commitWithoutReadAhead(b, row) == _construct(b, row + 1)

\* TextBuffer::_commit(row)
_commit(b, row) ==
    LET rowEnd == row + 1
        remaining == (b.height + 1) - b.commitWatermark
        minimum == rowEnd - b.commitWatermark
        ideal == minimum + CommitReadAheadRowCount
        size == Min(remaining, ideal)
    IN  _construct(b, b.commitWatermark + size)

\* TextBuffer::_destroy(): destroys the ROWs below the watermark; the
\* watermark itself is left alone.
_destroy(b) ==
    LET live(s) == s < b.commitWatermark
    IN  [b EXCEPT
            !.constructed = [s \in DOMAIN @ |-> IF live(s) THEN @[s] - 1 ELSE @[s]],
            !.rows = [s \in DOMAIN @ |-> IF live(s) THEN Unconstructed ELSE @[s]]]

\* A decommit that destroys the rows and leaves the watermark where it is.
_decommitKeepingWatermark(b) == _destroy(b)

\* TextBuffer::_decommit()
_decommit(b) == [_destroy(b) EXCEPT !.commitWatermark = 0]

\* TextBuffer::_getRowByOffsetDirect(offset): the buffer after the call;
\* the ROW it returns is rows[offset].
_getRowByOffsetDirect(b, offset) ==
    IF offset >= b.commitWatermark THEN _commit(b, offset) ELSE b

\* The slot of logical row y with the remainder left as the division gave it.
_getRowSlotUnwrapped(b, y) == CRem(b.firstRow + y, b.height) + 1

\* TextBuffer::_getRow(y): the slot of logical row y.
_getRowSlot(b, y) ==
    LET offset == CRem(b.firstRow + y, b.height)
    IN  (IF offset < 0 THEN offset + b.height ELSE offset) + 1

\* TextBuffer::_getRow(y): the buffer after the call.
_getRow(b, y) == _getRowByOffsetDirect(b, _getRowSlot(b, y))

\* TextBuffer::_estimateOffsetOfLastCommittedRow()
_estimateOffsetOfLastCommittedRow(b) == Max(0, b.commitWatermark - 2)

\* TextBuffer::GetRowByOffset(index): the buffer after the call.
GetRowByOffset(b, index) == _getRow(b, index)

\* The ROW GetRowByOffset(index) returns.
RowAt(b, index) == _getRow(b, index).rows[_getRowSlot(b, index)]

\* A GetMutableRowByOffset that leaves the mutation counter alone.
GetMutableRowByOffsetUncounted(b, index) == _getRow(b, index)

\* TextBuffer::GetMutableRowByOffset(index): the buffer after the call.
GetMutableRowByOffset(b, index) ==
    _getRow([b EXCEPT !.lastMutationId = @ + 1], index)

\* GetMutableRowByOffset(index) followed by the caller's change f of the
\* ROW it returned.
MutateRow(b, index, f(_)) ==
    [GetMutableRowByOffset(b, index) EXCEPT !.rows[_getRowSlot(b, index)] = f(@)]

\* TextBuffer::GetScratchpadRow(attributes)
GetScratchpadRow(b, attributes) ==
    [_getRowByOffsetDirect(b, 0) EXCEPT !.rows[0] = RowReset(@, attributes)]

\* ---------------------------------------------------- line renditions
\* TextBuffer::IsDoubleWidthLine(row)
IsDoubleWidthLine(b, row) == RowAt(b, row).lineRendition # "SingleWidth"

\* TextBuffer::GetLineWidth(row); the call reads the row, so the buffer
\* after it is GetRowByOffset(b, row).
GetLineWidth(b, row) == IF IsDoubleWidthLine(b, row) THEN b.width \div 2 ELSE b.width

\* TextBuffer::ClampPositionWithinLine(position)
ClampPositionWithinLine(b, position) ==
    LET rightmostColumn == GetLineWidth(b, position.y) - 1
    IN  [x |-> Min(position.x, rightmostColumn), y |-> position.y]

\* A Trigger* method that does not ask whether the buffer is the active one.
TriggerAlways(b, what) == [b EXCEPT !.renderer = Append(@, what)]

\* TextBuffer::TriggerRedraw and the other Trigger* methods: the
\* notification reaches the renderer only from the active buffer.
Trigger(b, what) ==
    IF b.isActiveBuffer THEN [b EXCEPT !.renderer = Append(@, what)] ELSE b

\* ------------------------------------------------------------- hyperlinks
\* The map m with key k bound to v (std::unordered_map::operator[] =).
MapPut(m, k, v) == [x \in DOMAIN m \cup {k} |-> IF x = k THEN v ELSE m[x]]

\* The map m without key k (std::unordered_map::erase).
MapErase(m, k) == [x \in DOMAIN m \ {k} |-> m[x]]

\* TextBuffer::RemoveHyperlinkFromMap(id): erases the id and the first
\* custom id found that maps to it.
RemoveHyperlinkFromMap(b, id) ==
    LET keys == {k \in DOMAIN b.hyperlinkCustomIdMap : b.hyperlinkCustomIdMap[k] = id}
    IN  [b EXCEPT
            !.hyperlinkMap = MapErase(@, id),
            !.hyperlinkCustomIdMap =
                IF keys = {} THEN @ ELSE MapErase(@, CHOOSE k \in keys : TRUE)]

\* The loop of _PruneHyperlinks over the rows i .. total - 1: every row
\* read drops its ids from firstRowRefs; the loop ends early once no id
\* is left.  Yields the buffer after the reads and the ids left.
RECURSIVE PruneScan(_, _, _)
PruneScan(b, i, firstRowRefs) ==
    IF i >= b.height THEN [buf |-> b, refs |-> firstRowRefs]
    ELSE LET left == firstRowRefs \ RowGetHyperlinks(RowAt(b, i))
             b1 == GetRowByOffset(b, i)
         IN  IF left = {} THEN [buf |-> b1, refs |-> left]
             ELSE PruneScan(b1, i + 1, left)

\* The last loop of _PruneHyperlinks: RemoveHyperlinkFromMap for each id.
RECURSIVE RemoveAll(_, _)
RemoveAll(b, ids) ==
    IF ids = {} THEN b
    ELSE LET id == CHOOSE x \in ids : TRUE
         IN  RemoveAll(RemoveHyperlinkFromMap(b, id), ids \ {id})

\* TextBuffer::_PruneHyperlinks()
_PruneHyperlinks(b) ==
    LET hyperlinks == RowGetHyperlinks(RowAt(b, 0))
        b1 == GetRowByOffset(b, 0)
    IN  IF hyperlinks = {} THEN b1
        ELSE LET scan == PruneScan(b1, 1, hyperlinks)
             IN  RemoveAll(scan.buf, scan.refs)

\* ------------------------------------------------- cursor coordination
\* No increment of _firstRow at all.
FirstRowKept(b) == b.firstRow

\* An increment of _firstRow that never loops back.
FirstRowIncrementedUnbounded(b) == b.firstRow + 1

\* The increment of _firstRow in IncrementCircularBuffer: past the height
\* of the buffer it loops back to 0.
FirstRowIncremented(b) == IF b.firstRow + 1 >= b.height THEN 0 ELSE b.firstRow + 1

\* TextBuffer::IncrementCircularBuffer(fillAttributes)
IncrementCircularBuffer(b, fillAttributes) ==
    LET b1 == Trigger(b, "TriggerFlush")
        b2 == _PruneHyperlinks(b1)
        b3 == MutateRow(b2, 0, LAMBDA r : RowReset(r, fillAttributes))
    IN  [b3 EXCEPT !.firstRow = FirstRowIncremented(b),
                   !.rotation.count = @ + 1]

\* A NewlineCursor that moves down whatever the row.
NewlineCursorUnclamped(b) == [b EXCEPT !.cursor = [x |-> 0, y |-> @.y + 1]]

\* TextBuffer::NewlineCursor()
NewlineCursor(b) ==
    LET iFinalRowIndex == b.height - 1
        b1 == [b EXCEPT !.cursor = [x |-> 0, y |-> @.y + 1]]
    IN  IF b1.cursor.y > iFinalRowIndex
        THEN IncrementCircularBuffer([b1 EXCEPT !.cursor.y = iFinalRowIndex],
                                     DefaultAttribute)
        ELSE b1

\* TextBuffer::_AdjustWrapOnCurrentRow(fSet)
_AdjustWrapOnCurrentRow(b, fSet) ==
    MutateRow(b, b.cursor.y, LAMBDA r : [r EXCEPT !.wrapForced = fSet])

\* A _SetWrapOnCurrentRow that sets nothing.
_KeepWrapOnCurrentRow(b) == b

\* TextBuffer::_SetWrapOnCurrentRow()
_SetWrapOnCurrentRow(b) == _AdjustWrapOnCurrentRow(b, TRUE)

\* TextBuffer::IncrementCursor()
IncrementCursor(b) ==
    LET iFinalColumnIndex == GetLineWidth(b, b.cursor.y) - 1
        b1 == [GetRowByOffset(b, b.cursor.y) EXCEPT !.cursor.x = @ + 1]
    IN  IF b1.cursor.x > iFinalColumnIndex
        THEN NewlineCursor(_SetWrapOnCurrentRow(b1))
        ELSE b1

\* TextBuffer::_PrepareForDoubleByteSequence(dbcsAttribute)
_PrepareForDoubleByteSequence(b, dbcsAttribute) ==
    IF dbcsAttribute = "Leading"
    THEN LET lineWidth == GetLineWidth(b, b.cursor.y)
             b1 == GetRowByOffset(b, b.cursor.y)
         IN  IF b.cursor.x = lineWidth - 1
             THEN IncrementCursor(
                      MutateRow(b1, b.cursor.y,
                                LAMBDA r : [r EXCEPT !.doubleBytePadded = TRUE]))
             ELSE b1
    ELSE b

\* TextBuffer::InsertCharacter(chars, dbcsAttribute, attr)
InsertCharacter(b, ch, dbcsAttribute, attr) ==
    LET b1 == _PrepareForDoubleByteSequence(b, dbcsAttribute)
        iRow == b1.cursor.y
        iCol == b1.cursor.x
        store(r) == CASE dbcsAttribute = "Leading" -> RowReplaceCharacters(r, iCol, 2, ch)
                      [] dbcsAttribute = "Trailing" -> RowReplaceCharacters(r, iCol - 1, 2, ch)
                      [] OTHER -> RowReplaceCharacters(r, iCol, 1, ch)
    IN  IncrementCursor(
            MutateRow(b1, iRow, LAMBDA r : RowSetAttrToEnd(store(r), iCol, attr)))

\* TextBuffer::SetWrapForced(y, wrap)
SetWrapForced(b, y, wrap) == MutateRow(b, y, LAMBDA r : [r EXCEPT !.wrapForced = wrap])

\* ROW::WriteCells(fillData, columnBegin, wrap) with fillData a run of
\* blanks that reaches the end of the row.
RECURSIVE RowFillBlank(_, _, _)
RowFillBlank(row, col, attr) ==
    IF col >= Len(row.chars) THEN row
    ELSE RowFillBlank(
             RowReplaceAttributes(RowReplaceCharacters(row, col, 1, " "), col, col + 1, attr),
             col + 1, attr)

\* TextBuffer::SetCurrentLineRendition(lineRendition, fillAttributes)
SetCurrentLineRendition(b, lineRendition, fillAttributes) ==
    LET cursorPosition == b.cursor
        rowIndex == cursorPosition.y
        b1 == GetMutableRowByOffset(b, rowIndex)
        slot == _getRowSlot(b, rowIndex)
    IN  IF b1.rows[slot].lineRendition # lineRendition
        THEN LET b2 == [b1 EXCEPT !.rows[slot].lineRendition = lineRendition,
                                  !.rows[slot].wrapForced = FALSE]
                 b3 == IF lineRendition # "SingleWidth"
                       THEN LET fillOffset == GetLineWidth(b2, rowIndex)
                            IN  [b2 EXCEPT
                                    !.rows[slot] = [RowFillBlank(@, fillOffset, fillAttributes)
                                                       EXCEPT !.wrapForced = FALSE],
                                    !.cursor = ClampPositionWithinLine(b2, cursorPosition)]
                       ELSE b2
             IN  Trigger(b3, "TriggerRedraw")
        ELSE b1

\* TextBuffer::ResetLineRenditionRange(startRow, endRow)
RECURSIVE ResetLineRenditionRange(_, _, _)
ResetLineRenditionRange(b, startRow, endRow) ==
    IF startRow >= endRow THEN b
    ELSE ResetLineRenditionRange(
             MutateRow(b, startRow, LAMBDA r : [r EXCEPT !.lineRendition = "SingleWidth"]),
             startRow + 1, endRow)

\* A Reset that leaves _initialAttributes as they are.
ResetKeepingAttributes(b) == _decommit(b)

\* TextBuffer::Reset()
Reset(b) == [_decommit(b) EXCEPT !.initialAttributes = b.currentAttributes]

\* ------------------------------------------------------- copying rows
\* til::rle::resize_trailing_extent(n): cut, or extend the last run.
AttrResizeTrailingExtent(attr, n) ==
    [c \in 1..n |-> IF c <= Len(attr) THEN attr[c] ELSE attr[Len(attr)]]

\* ROW::CopyTextFrom(state): copies the glyphs of the source columns
\* [sourceColumnBegin, sourceColumnLimit) to columnBegin and on, as many as
\* fit before columnLimit; a two-column glyph that would cross the limit is
\* left out and its column blanked.  columnEnd is the limit unless all of
\* the text was copied; sourceColumnEnd is the first source column not
\* copied, or the source width when nothing could be copied.
RowCopyTextFrom(dest, source, columnBegin, columnLimit, sourceColumnBegin, sourceColumnLimit) ==
    LET sBeg == ClampedColumnInclusive(source, sourceColumnBegin)
        sLim == ClampedColumnInclusive(source, sourceColumnLimit)
        sEnd == ExtBegin(source.chars, sLim)
        colBeg == ClampedColumnInclusive(dest, columnBegin)
        colLimit == ClampedColumnInclusive(dest, columnLimit)
        valid == /\ colBeg < colLimit
                 /\ sBeg < sEnd
                 /\ ~IsTrailer(source.chars[sBeg + 1])
        colEndDirtyInput == Min(colLimit - colBeg, sLim - sBeg)
        colEndInput == ExtBegin(source.chars, sBeg + colEndDirtyInput) - sBeg
        colEnd == colBeg + colEndInput
        colEndDirty == colBeg + colEndDirtyInput
        extBeg == ExtBegin(dest.chars, colBeg)
        extEnd == ExtEnd(dest.chars, colEndDirty)
    IN  IF ~valid
        THEN [row |-> dest, columnEnd |-> colBeg, sourceColumnEnd |-> Len(source.chars)]
        ELSE [row |-> [dest EXCEPT !.chars =
                          [c \in 1..Len(dest.chars) |->
                              IF c - 1 >= colBeg /\ c - 1 < colEnd
                              THEN source.chars[sBeg + (c - colBeg)]
                              ELSE IF c - 1 >= extBeg /\ c - 1 < extEnd THEN " "
                              ELSE dest.chars[c]]],
              columnEnd |-> IF sBeg + colEndInput = sEnd THEN colEnd ELSE colLimit,
              sourceColumnEnd |-> sBeg + colEnd - colBeg]

\* ROW::CopyFrom(source): rendition, wrap flag, text and attributes.
RowCopyFrom(dest, source) ==
    LET copied == RowCopyTextFrom(dest, source, 0, Len(dest.chars), 0,
                                  RowGetReadableColumnCount(source)).row
    IN  [copied EXCEPT
            !.lineRendition = source.lineRendition,
            !.wrapForced = source.wrapForced,
            !.attr = AttrResizeTrailingExtent(source.attr, Len(dest.chars))]

\* The copy loop of ResizeTraditional: rows srcRow, srcRow + 1, ... of the
\* old buffer go to rows dstRow, dstRow + 1, ... < copyableRows of the new.
RECURSIVE ResizeCopyRows(_, _, _, _, _)
ResizeCopyRows(old, new, srcRow, dstRow, copyableRows) ==
    IF dstRow >= copyableRows THEN new
    ELSE LET source == RowAt(old, srcRow)
         IN  ResizeCopyRows(GetRowByOffset(old, srcRow),
                            MutateRow(new, dstRow, LAMBDA r : RowCopyFrom(r, source)),
                            srcRow + 1, dstRow + 1, copyableRows)

\* TextBuffer::ResizeTraditional(newSize); seed is the mutation id the
\* temporary buffer is constructed with.  The storage, the size and the
\* initial attributes of the temporary buffer are taken over; the cursor,
\* the mutation id, the marks and the hyperlink maps stay as they are.
ResizeTraditional(b, newWidth, newHeight, seed) ==
    LET newBuffer == NewTextBuffer(newWidth, newHeight, b.currentAttributes, FALSE, seed)
        cursorRow == b.cursor.y
        copyableRows == Min(b.height, newBuffer.height)
        srcRow == IF cursorRow >= newBuffer.height
                  THEN cursorRow - newBuffer.height + 1 ELSE 0
        filled == ResizeCopyRows(b, newBuffer, srcRow, 0, copyableRows)
    IN  [b EXCEPT
            !.rows = filled.rows,
            !.constructed = filled.constructed,
            !.commitWatermark = filled.commitWatermark,
            !.initialAttributes = filled.initialAttributes,
            !.width = filled.width,
            !.height = filled.height,
            !.firstRow = 0,
            !.rotation = [from |-> 0, count |-> 0]]

\* The back-up loop of GetLastNonSpaceCharacter: from row y upwards until a
\* row holds text or the top of the viewport is reached.
RECURSIVE LastNonSpaceScan(_, _, _)
LastNonSpaceScan(b, y, viewportTop) ==
    LET x == RowMeasureRight(RowAt(b, y)) - 1
        b1 == GetRowByOffset(b, y)
    IN  IF x < 0 /\ y > viewportTop
        THEN LastNonSpaceScan(b1, y - 1, viewportTop)
        ELSE [buf |-> b1, pos |-> [x |-> Max(x, 0), y |-> Max(y, 0)]]

\* TextBuffer::GetLastNonSpaceCharacter(nullptr): the position found and
\* the buffer after the rows were read.
GetLastNonSpaceCharacter(b) ==
    LastNonSpaceScan(b, Min(b.height - 1, _estimateOffsetOfLastCommittedRow(b)), 0)

\* ----------------------------------------------------------------- marks
\* til::point order: rows first, then columns.
PointLE(p, q) == p.y < q.y \/ (p.y = q.y /\ p.x <= q.x)

\* An optional til::point that holds no value.
NoPoint == [none |-> TRUE]

\* The mark m starts outside a buffer of `height` rows.
StartsOutside(m, height) == m.start.y < 0 \/ m.start.y >= height

\* TextBuffer::_trimMarksOutsideBuffer(): std::erase_if of the marks that
\* start outside the buffer.
_trimMarksOutsideBuffer(b) ==
    LET height == b.height
        kept(m) == ~StartsOutside(m, height)
    IN  [b EXCEPT !.marks = SelectSeq(@, kept)]

\* TextBuffer::StartPromptMark(m)
StartPromptMark(b, m) == [b EXCEPT !.marks = Append(@, m)]

\* TextBuffer::AddMark(m)
AddMark(b, m) == [b EXCEPT !.marks = <<m>> \o @]

\* TextBuffer::ClearMarksInRange(start, end)
ClearMarksInRange(b, start, end) ==
    LET inRange(m) == \/ PointLE(start, m.start) /\ PointLE(m.start, end)
                      \/ PointLE(start, m.end) /\ PointLE(m.end, end)
        kept(m) == ~inRange(m)
    IN  [b EXCEPT !.marks = SelectSeq(@, kept)]

\* TextBuffer::ClearAllMarks()
ClearAllMarks(b) == [b EXCEPT !.marks = <<>>]

\* A point moved down by delta rows; an optional point without a value stays.
ShiftPointKept(p, delta) == p

ShiftPoint(p, delta) == IF p = NoPoint THEN p ELSE [p EXCEPT !.y = @ + delta]

\* TextBuffer::ScrollMarks(delta)
ScrollMarks(b, delta) ==
    _trimMarksOutsideBuffer(
        [b EXCEPT !.marks =
            [i \in 1..Len(@) |->
                [@[i] EXCEPT !.start = ShiftPoint(@, delta),
                             !.commandEnd = ShiftPoint(@, delta),
                             !.outputEnd = ShiftPoint(@, delta)]]])

\* TextBuffer::SetCurrentPromptEnd(pos)
SetCurrentPromptEnd(b, pos) ==
    IF b.marks = <<>> THEN b ELSE [b EXCEPT !.marks[Len(b.marks)].end = pos]

\* TextBuffer::SetCurrentCommandEnd(pos)
SetCurrentCommandEnd(b, pos) ==
    IF b.marks = <<>> THEN b ELSE [b EXCEPT !.marks[Len(b.marks)].commandEnd = pos]

\* TextBuffer::SetCurrentOutputEnd(pos, category)
SetCurrentOutputEnd(b, pos, category) ==
    IF b.marks = <<>> THEN b
    ELSE [b EXCEPT !.marks[Len(b.marks)].outputEnd = pos,
                   !.marks[Len(b.marks)].category = category]

\* ------------------------------------------------------ hyperlink registry
\* uint16_t arithmetic of _currentHyperlinkId.
HyperlinkIdModulus == 65536

\* til::hash(uri): the model's URIs hash to different values.
UriHash(uri) == uri

\* TextBuffer::AddHyperlinkToMap(uri, id)
AddHyperlinkToMap(b, uri, id) == [b EXCEPT !.hyperlinkMap = MapPut(@, id, uri)]

\* A counter that is left at 0 after it has overflowed.
KeepZero(id) == id

\* "_currentHyperlinkId could overflow, make sure its not 0"
SkipZero(id) == IF id = 0 THEN 1 ELSE id

\* TextBuffer::GetHyperlinkId(uri, id): the buffer after the call and the
\* numeric id returned.
GetHyperlinkId(b, uri, id) ==
    LET newId == <<id, UriHash(uri)>>
        known == newId \in DOMAIN b.hyperlinkCustomIdMap
        b1 == IF id = ""
              THEN [b EXCEPT !.currentHyperlinkId = (@ + 1) % HyperlinkIdModulus]
              ELSE IF known THEN b
              ELSE [b EXCEPT
                       !.hyperlinkCustomIdMap = MapPut(@, newId, b.currentHyperlinkId),
                       !.currentHyperlinkId = (@ + 1) % HyperlinkIdModulus]
        numericId == IF id = "" THEN b.currentHyperlinkId
                     ELSE b1.hyperlinkCustomIdMap[newId]
    IN  [buf |-> [b1 EXCEPT !.currentHyperlinkId = SkipZero(@)],
         id |-> numericId]

\* A CopyHyperlinkMaps that copies nothing.
CopyNoHyperlinkMaps(b, other) == b

\* TextBuffer::CopyHyperlinkMaps(other)
CopyHyperlinkMaps(b, other) ==
    [b EXCEPT !.hyperlinkMap = other.hyperlinkMap,
              !.hyperlinkCustomIdMap = other.hyperlinkCustomIdMap,
              !.currentHyperlinkId = other.currentHyperlinkId]

\* TextBuffer::SetCurrentAttributes(currentAttributes)
SetCurrentAttributes(b, currentAttributes) ==
    [b EXCEPT !.currentAttributes = currentAttributes]

\* ---------------------------------------------------------------- reflow
\* til::CoordTypeMax
CoordTypeMax == 2147483647

\* No terminating walk of Reflow writes a destination row beyond this one:
\* a source row fills at most width + 1 destination rows, and the walk stops
\* one buffer height past the cursor.  A walk that passes it makes no
\* progress (a two-column glyph that never fits a one-column row) and
\* never returns.
ReflowRowBound(oldBuffer, newBuffer) ==
    oldBuffer.height * (oldBuffer.width + 2) + newBuffer.height + 2

\* The line wrap at the head of the do-while loop of Reflow: a destination
\* row that is full is marked as wrapped and the walk goes to the next one.
ReflowWrap(st) ==
    IF st.newX >= st.new.width
    THEN [st EXCEPT
             !.new = MutateRow(@, st.newY, LAMBDA r : [r EXCEPT !.wrapForced = TRUE]),
             !.newX = 0,
             !.newY = @ + 1]
    ELSE st

\* REFLOW_RESET: a destination row that is written a second time is reset.
ReflowReset(st) ==
    [st EXCEPT !.new = MutateRow(@, st.newY,
                                 LAMBDA r : RowReset(r, st.new.initialAttributes))]

\* The do-while loop of Reflow that copies the single-width row oldRow from
\* column oldX on; st is the state of the walk.
RECURSIVE ReflowCopy(_, _, _, _, _)

\* No PositionInformation is given: the markers stay at CoordTypeMax.
NoPositionInfo == [mutableViewportTop |-> CoordTypeMax, visibleViewportTop |-> CoordTypeMax]

\* if (oldY >= mutableViewportTop) ... if (oldY >= visibleViewportTop) ...:
\* a viewport top whose old row the walk has reached is handed back as the
\* destination row newY, and is not looked for again.
ReflowViewportTops(st) ==
    [st EXCEPT
        !.positionInfo.mutableViewportTop =
            IF st.oldY >= st.mutableViewportTop THEN st.newY ELSE @,
        !.mutableViewportTop = IF st.oldY >= @ THEN CoordTypeMax ELSE @,
        !.positionInfo.visibleViewportTop =
            IF st.oldY >= st.visibleViewportTop THEN st.newY ELSE @,
        !.visibleViewportTop = IF st.oldY >= @ THEN CoordTypeMax ELSE @]

\* The end of one round of the do-while loop: `state` is what CopyTextFrom
\* left; the attributes follow the text, the cursor is noted, and the loop
\* goes on while the old row has columns left.
ReflowStored(st, state, oldRow, oldRowLimit, oldX, oldCursorPos) ==
    LET slot == _getRowSlot(st.new, st.newY)
        attributes == SubSeq(oldRow.attr, oldX + 1, Len(oldRow.attr))
        newAttr == AttrResizeTrailingExtent(
                       SubSeq(state.row.attr, 1, st.newX) \o attributes, st.new.width)
        atCursor == st.oldY = oldCursorPos.y /\ oldCursorPos.x >= oldX
        s2 == [ReflowViewportTops(st) EXCEPT
                  !.new.rows[slot] = [state.row EXCEPT !.attr = newAttr],
                  !.newCursorPos =
                      IF atCursor
                      THEN [x |-> RowAdjustToGlyphStart(
                                      state.row, oldCursorPos.x - oldX + st.newX),
                            y |-> st.newY]
                      ELSE @,
                  !.newYLimit = IF atCursor THEN st.newY + st.new.height ELSE @,
                  !.newX = state.columnEnd]
    IN  IF state.sourceColumnEnd < oldRowLimit
        THEN ReflowCopy(s2, oldRow, oldRowLimit, state.sourceColumnEnd, oldCursorPos)
        ELSE s2

\* The text insertion of one round: st.new is the buffer after
\* GetMutableRowByOffset(newY).
ReflowCopyInto(st, oldRow, oldRowLimit, oldX, oldCursorPos) ==
    ReflowStored(st,
                 RowCopyTextFrom(st.new.rows[_getRowSlot(st.new, st.newY)], oldRow,
                                 st.newX, CoordTypeMax, oldX, oldRowLimit),
                 oldRow, oldRowLimit, oldX, oldCursorPos)

\* One round of the do-while loop after the line wrap.
ReflowCopyText(st, oldRow, oldRowLimit, oldX, oldCursorPos) ==
    LET reset == st.newY >= st.new.height /\ st.newX = 0
    IN  IF reset /\ st.newY >= st.newYLimit THEN st
        ELSE IF st.newY > st.rowBound THEN [st EXCEPT !.diverged = TRUE]
        ELSE ReflowCopyInto(
                 [(IF reset THEN ReflowReset(st) ELSE st)
                     EXCEPT !.new = GetMutableRowByOffset(@, st.newY),
                            !.written = Max(@, st.newY)],
                 oldRow, oldRowLimit, oldX, oldCursorPos)

ReflowCopy(st, oldRow, oldRowLimit, oldX, oldCursorPos) ==
    ReflowCopyText(ReflowWrap(st), oldRow, oldRowLimit, oldX, oldCursorPos)

\* The branch of Reflow for a row that is not single-width: the row is
\* copied whole to a destination row of its own; st.newY is that row and
\* st.new the buffer after GetMutableRowByOffset(newY).
ReflowTruncated(st, oldRow, oldCursorPos) ==
    LET slot == _getRowSlot(st.new, st.newY)
        newRow == [RowCopyFrom(IF st.newY >= st.new.height
                               THEN RowReset(st.new.rows[slot], st.new.initialAttributes)
                               ELSE st.new.rows[slot],
                               oldRow)
                      EXCEPT !.wrapForced = FALSE]
    IN  [ReflowViewportTops(st) EXCEPT
            !.new.rows[slot] = newRow,
            !.newCursorPos =
                IF st.oldY = oldCursorPos.y
                THEN [x |-> RowAdjustToGlyphStart(newRow, oldCursorPos.x), y |-> st.newY]
                ELSE @,
            !.written = Max(@, st.newY),
            !.newX = 0,
            !.newY = @ + 1]

\* The newline after a row that has been copied: a row that was not
\* wrapped ended in an explicit newline.
ReflowNewline(st, oldRow) ==
    IF ~oldRow.wrapForced THEN [st EXCEPT !.newX = 0, !.newY = @ + 1] ELSE st

\* The columns of oldRow that Reflow copies: up to the last one that is not
\* blank, and on the cursor's row up to the cursor at least.
ReflowRowLimit(st, oldRow, oldCursorPos) ==
    IF st.oldY = oldCursorPos.y
    THEN Max(RowMeasureRight(oldRow), oldCursorPos.x + 1)
    ELSE RowMeasureRight(oldRow)

\* One round of the main loop of Reflow: oldRow is the row oldY of the old
\* buffer.
ReflowRow(st, oldRow, oldCursorPos) ==
    IF oldRow.lineRendition # "SingleWidth"
    THEN ReflowTruncated(
             [st EXCEPT
                 !.new = GetMutableRowByOffset(@, IF st.newX # 0 THEN st.newY + 1
                                                  ELSE st.newY),
                 !.newY = IF st.newX # 0 THEN @ + 1 ELSE @,
                 !.newX = 0],
             oldRow, oldCursorPos)
    ELSE ReflowNewline(
             ReflowCopy(st, oldRow, ReflowRowLimit(st, oldRow, oldCursorPos), 0,
                        oldCursorPos),
             oldRow)

\* The main loop of Reflow over the rows oldY < oldHeight of the old buffer.
RECURSIVE ReflowRows(_, _, _)
ReflowRows(st, oldHeight, oldCursorPos) ==
    IF st.diverged \/ ~(st.oldY < oldHeight /\ st.newY < st.newYLimit) THEN st
    ELSE ReflowRows(
             [ReflowRow([st EXCEPT !.old = GetRowByOffset(@, st.oldY)],
                        RowAt(st.old, st.oldY), oldCursorPos)
                 EXCEPT !.oldY = @ + 1],
             oldHeight, oldCursorPos)

\* The last loop of Reflow: the attributes of the committed rows below the
\* text go to the rows of the new buffer that are left.
RECURSIVE ReflowAttributes(_, _)
ReflowAttributes(st, initializedRowsEnd) ==
    IF st.diverged \/ ~(st.oldY < initializedRowsEnd /\ st.newY < st.new.height) THEN st
    ELSE ReflowAttributes(
             [st EXCEPT
                 !.old = GetRowByOffset(@, st.oldY),
                 !.new = MutateRow(@, st.newY, LAMBDA r :
                             [r EXCEPT !.attr = AttrResizeTrailingExtent(
                                                    RowAt(st.old, st.oldY).attr,
                                                    st.new.width)]),
                 !.oldY = @ + 1,
                 !.newY = @ + 1],
             initializedRowsEnd)

\* The _firstRow Reflow gives the new buffer once the walk ended on row newY.
ReflowFirstRow(newBuffer, newY) ==
    IF newY > newBuffer.height THEN newY % newBuffer.height ELSE newBuffer.firstRow

\* The cursor row Reflow computes from the destination row newCursorY.
ReflowCursorY(newBuffer, newY, newCursorY) ==
    IF newY > newBuffer.height
    THEN (newCursorY - (newY % newBuffer.height) + newBuffer.height) % newBuffer.height
    ELSE newCursorY

\* The cursor position of the old buffer, clamped to the buffer.
ReflowOldCursorPos(oldBuffer) ==
    [x |-> Max(0, Min(oldBuffer.width - 1, oldBuffer.cursor.x)),
     y |-> Max(0, Min(oldBuffer.height - 1, oldBuffer.cursor.y))]

\* The two loops of Reflow; `last` is what GetLastNonSpaceCharacter gave.
\* The walk keeps, as history, the highest destination row it has written
\* text to (written, -1 for none).
ReflowWalkWith(newBuffer, last, oldCursorPos, rowBound, positionInfo) ==
    ReflowRows([old |-> last.buf, new |-> newBuffer, oldY |-> 0, newY |-> 0, newX |-> 0,
                newYLimit |-> CoordTypeMax, newCursorPos |-> [x |-> 0, y |-> 0],
                diverged |-> FALSE, rowBound |-> rowBound, written |-> 0 - 1,
                mutableViewportTop |-> positionInfo.mutableViewportTop,
                visibleViewportTop |-> positionInfo.visibleViewportTop,
                positionInfo |-> positionInfo],
               Max(last.pos.y, oldCursorPos.y) + 1, oldCursorPos)

\* The walk when positionInfo is nullptr.
ReflowWalk(newBuffer, last, oldCursorPos, rowBound) ==
    ReflowWalkWith(newBuffer, last, oldCursorPos, rowBound, NoPositionInfo)

\* The end of Reflow, after the walk st: _firstRow, the cursor, the
\* hyperlink maps and the marks of the new buffer.
ReflowFinish(oldBuffer, newBuffer, st) ==
    LET newCursorPos == [x |-> st.newCursorPos.x,
                         y |-> ReflowCursorY(newBuffer, st.newY, st.newCursorPos.y)]
    IN  [new |-> _trimMarksOutsideBuffer(
                     [CopyHyperlinkMaps(st.new, oldBuffer) EXCEPT
                         !.firstRow = ReflowFirstRow(newBuffer, st.newY),
                         !.rotation = [from |-> ReflowFirstRow(newBuffer, st.newY),
                                       count |-> 0],
                         !.cursor = newCursorPos,
                         !.marks = oldBuffer.marks]),
         diverged |-> st.diverged, newY |-> st.newY, newCursorPos |-> newCursorPos,
         written |-> st.written, newCursorY |-> st.newCursorPos.y,
         positionInfo |-> st.positionInfo]

\* The loop over the attributes, from where the walk st over the text
\* stopped.
ReflowRest(st) ==
    ReflowAttributes(st, _estimateOffsetOfLastCommittedRow(st.old) + 1)

\* TextBuffer::Reflow(oldBuffer, newBuffer, nullptr, nullptr): the new
\* buffer it leaves (new), whether the walk runs forever (diverged), the
\* destination row the walk ended on (newY), the cursor position handed to
\* SetPosition (newCursorPos), the highest destination row written (written)
\* and the destination row of the cursor (newCursorY).
Reflow(oldBuffer, newBuffer) ==
    ReflowFinish(oldBuffer, newBuffer,
                 ReflowRest(ReflowWalk(newBuffer, GetLastNonSpaceCharacter(oldBuffer),
                                       ReflowOldCursorPos(oldBuffer),
                                       ReflowRowBound(oldBuffer, newBuffer))))

\* TextBuffer::Reflow(oldBuffer, newBuffer, nullptr, positionInfo): as
\* Reflow, with the viewport tops that positionInfo holds in the end.
ReflowWithPositions(oldBuffer, newBuffer, positionInfo) ==
    ReflowFinish(oldBuffer, newBuffer,
                 ReflowRest(ReflowWalkWith(newBuffer, GetLastNonSpaceCharacter(oldBuffer),
                                           ReflowOldCursorPos(oldBuffer),
                                           ReflowRowBound(oldBuffer, newBuffer),
                                           positionInfo)))

\* ================================================================ actions
\* The sizes a buffer is constructed with or resized to.
Sizes == (1..MaxWidth) \X (1..MaxHeight)

\* The positions inside the buffer: a row of the buffer and a column of that
\* row's line width.
Positions ==
    {pos \in [x : 0..(_width - 1), y : 0..(_height - 1)] :
        pos.x < GetLineWidth(Self, pos.y)}

\* The row numbers handed to GetRowByOffset and GetMutableRowByOffset.
RowOffsets == (0 - MaxHeight - 1)..(MaxHeight + 1)

\* The number of mutations the live instance has seen: instances start at
\* multiples of MutationIdStride.
MutationCount == _lastMutationId % MutationIdStride

\* A mutating call may start.
MayMutate == MutationCount < MaxMutations

\* Another TextBuffer may be constructed.
MayConstruct == s_lastMutationIdInitialValue < MaxInstances * MutationIdStride

\* The record left in ret by the call op with argument arg.
Called(op, arg) == [op |-> op, arg |-> arg]

\* A call of op with argument arg leaves buffer b; the static seed is untouched.
Does(op, arg, b) ==
    /\ Install(b)
    /\ ret' = Called(op, arg)
    /\ UNCHANGED s_lastMutationIdInitialValue

\* The live buffer is the freshly constructed b.
StartsAs(b) ==
    /\ _width = b.width
    /\ _height = b.height
    /\ _firstRow = b.firstRow
    /\ _commitWatermark = b.commitWatermark
    /\ constructed = b.constructed
    /\ rows = b.rows
    /\ _cursor = b.cursor
    /\ _lastMutationId = b.lastMutationId
    /\ _currentAttributes = b.currentAttributes
    /\ _initialAttributes = b.initialAttributes
    /\ _isActiveBuffer = b.isActiveBuffer
    /\ _hyperlinkMap = b.hyperlinkMap
    /\ _hyperlinkCustomIdMap = b.hyperlinkCustomIdMap
    /\ _currentHyperlinkId = b.currentHyperlinkId
    /\ _marks = b.marks
    /\ rotation = b.rotation
    /\ screenInfo = b.screenInfo
    /\ writing = b.writing
    /\ renderer = b.renderer

\* The state after the constructor ran with one of the sizes.
Init ==
    \E size \in Sizes :
        /\ StartsAs(NewTextBuffer(size[1], size[2], DefaultAttribute, TRUE, 0))
        /\ s_lastMutationIdInitialValue = MutationIdStride
        /\ ret = Called("TextBuffer", 0)

\* The double byte information InsertCharacter is given.
DbcsAttributes == {"Single", "Leading", "Trailing"}

\* The line renditions of a row.
LineRenditions == {"SingleWidth", "DoubleWidth"}

\* The attributes a caller passes to fill a row: the default ones or the
\* buffer's current ones (GetCurrentAttributes()).
FillAttributes == {DefaultAttribute, _currentAttributes}

\* A caller reads the row y.
GetRowByOffsetCall ==
    \E y \in RowOffsets :
        Does("GetRowByOffset", y, GetRowByOffset(Self, y))

\* A caller asks for the row y to change it.
GetMutableRowByOffsetCall ==
    /\ MayMutate
    /\ \E y \in RowOffsets :
           Does("GetMutableRowByOffset", y, GetMutableRowByOffset(Self, y))

\* A caller asks for the scratchpad row.
GetScratchpadRowCall ==
    \E attributes \in {_currentAttributes} :
        Does("GetScratchpadRow", 0, GetScratchpadRow(Self, attributes))

\* The cursor is put at a position of the buffer (Cursor::SetPosition, as
\* AdjustCursorPosition does through SetCursorPosition).
SetCursorPositionCall ==
    /\ MayMutate
    /\ \E pos \in Positions :
           Does("SetCursorPosition", pos.y, [Self EXCEPT !.cursor = pos])

\* One glyph is inserted at the cursor with the current attributes.
InsertCharacterCall ==
    /\ MayMutate
    /\ \E dbcsAttribute \in DbcsAttributes :
           Does("InsertCharacter", dbcsAttribute,
                InsertCharacter(Self, "a", dbcsAttribute, _currentAttributes))

IncrementCursorCall ==
    /\ MayMutate
    /\ Does("IncrementCursor", 0, IncrementCursor(Self))

NewlineCursorCall ==
    /\ MayMutate
    /\ Does("NewlineCursor", 0, NewlineCursor(Self))

IncrementCircularBufferCall ==
    /\ MayMutate
    /\ \E fillAttributes \in FillAttributes :
           Does("IncrementCircularBuffer", 0,
                IncrementCircularBuffer(Self, fillAttributes))

\* _writeCharsLegacyUnprocessed marks the cursor's row as wrapped.
SetWrapForcedCall ==
    /\ MayMutate
    /\ \E wrap \in BOOLEAN :
           Does("SetWrapForced", _cursor.y, SetWrapForced(Self, _cursor.y, wrap))

SetCurrentLineRenditionCall ==
    /\ MayMutate
    /\ \E lineRendition \in LineRenditions :
           Does("SetCurrentLineRendition", 0,
                SetCurrentLineRendition(Self, lineRendition, _currentAttributes))

ResetLineRenditionRangeCall ==
    /\ MayMutate
    /\ \E startRow \in 0..(_height - 1) :
           \E endRow \in startRow..(_height) :
               Does("ResetLineRenditionRange", startRow,
                    ResetLineRenditionRange(Self, startRow, endRow))

ResetCall ==
    \E b \in {Reset(Self)} : Does("Reset", 0, b)

\* A call constructs another TextBuffer: the static seed advances.
Constructs(op, arg, b) ==
    /\ Install(b)
    /\ ret' = Called(op, arg)
    /\ s_lastMutationIdInitialValue' = s_lastMutationIdInitialValue + MutationIdStride

ResizeTraditionalCall ==
    /\ MayConstruct
    /\ \E newSize \in Sizes :
           Constructs("ResizeTraditional", newSize[2],
                      ResizeTraditional(Self, newSize[1], newSize[2],
                                        s_lastMutationIdInitialValue))

\* The caller constructs a buffer of the new size, reflows the live buffer
\* into it and goes on with the new buffer. A reflow that never finishes
\* leaves no buffer to go on with.
ReflowCall ==
    /\ MayConstruct
    /\ \E newSize \in Sizes :
           LET newBuffer == NewTextBuffer(newSize[1], newSize[2], DefaultAttribute,
                                          _isActiveBuffer, s_lastMutationIdInitialValue)
               reflow == Reflow(Self, newBuffer)
           IN  /\ ~reflow.diverged
               /\ Constructs("Reflow", newSize[2], reflow.new)

Next ==
    \/ GetRowByOffsetCall
    \/ GetMutableRowByOffsetCall
    \/ GetScratchpadRowCall
    \/ SetCursorPositionCall
    \/ InsertCharacterCall
    \/ IncrementCursorCall
    \/ NewlineCursorCall
    \/ IncrementCircularBufferCall
    \/ SetWrapForcedCall
    \/ SetCurrentLineRenditionCall
    \/ ResetLineRenditionRangeCall
    \/ ResetCall
    \/ ResizeTraditionalCall
    \/ ReflowCall

Spec == Init /\ [][Next]_vars

\* ------------------------------------------------- hyperlink actions
\* The URIs and the custom ids of the hyperlinks; "" is no custom id.
Uris == {"u"}
CustomIds == {"", "c"}

\* The numeric ids GetHyperlinkId has handed out.
HandedOutIds == 1..(_currentHyperlinkId - 1)

GetHyperlinkIdCall ==
    /\ _currentHyperlinkId < MaxHyperlinkId
    /\ \E uri \in Uris, id \in CustomIds :
           LET got == GetHyperlinkId(Self, uri, id)
           IN  Does("GetHyperlinkId", got.id, got.buf)

\* A caller registers a URI under an id that GetHyperlinkId gave it.
AddHyperlinkToMapCall ==
    \E uri \in Uris, id \in HandedOutIds :
        Does("AddHyperlinkToMap", id, AddHyperlinkToMap(Self, uri, id))

\* The current attributes are set to ones without a hyperlink, or with one
\* of the hyperlinks registered at the time.
SetCurrentAttributesCall ==
    \E link \in {0} \cup DOMAIN _hyperlinkMap :
        Does("SetCurrentAttributes", link,
             SetCurrentAttributes(Self, TextAttribute(0, link)))

NextHyperlinks ==
    \/ GetHyperlinkIdCall
    \/ AddHyperlinkToMapCall
    \/ SetCurrentAttributesCall
    \/ SetCursorPositionCall
    \/ InsertCharacterCall
    \/ IncrementCircularBufferCall
    \/ ResetCall

SpecHyperlinks == Init /\ [][NextHyperlinks]_vars

\* ------------------------------------------------------- mark actions
\* The first column of each row of the buffer.
RowStarts == {[x |-> 0, y |-> y] : y \in 0..(_height - 1)}

\* A mark a caller makes at position pos, before its ends are known.
ScrollMark(pos) ==
    [start |-> pos, end |-> pos, commandEnd |-> NoPoint, outputEnd |-> NoPoint,
     category |-> "Prompt"]

\* The categories SetCurrentOutputEnd is given.
MarkCategories == {"Success"}

StartPromptMarkCall ==
    /\ Len(_marks) < MaxMarks
    /\ \E pos \in RowStarts :
           Does("StartPromptMark", pos.y, StartPromptMark(Self, ScrollMark(pos)))

AddMarkCall ==
    /\ Len(_marks) < MaxMarks
    /\ \E pos \in RowStarts :
           Does("AddMark", pos.y, AddMark(Self, ScrollMark(pos)))

ScrollMarksCall ==
    \E delta \in {0 - 1, 1} :
        Does("ScrollMarks", delta, ScrollMarks(Self, delta))

ClearMarksInRangeCall ==
    \E start \in RowStarts, end \in RowStarts :
        /\ PointLE(start, end)
        /\ Does("ClearMarksInRange", start.y, ClearMarksInRange(Self, start, end))

ClearAllMarksCall ==
    \E b \in {ClearAllMarks(Self)} : Does("ClearAllMarks", 0, b)

\* The ends of the current mark are set to where the cursor is.
SetCurrentPromptEndCall ==
    \E pos \in {_cursor} :
        Does("SetCurrentPromptEnd", 0, SetCurrentPromptEnd(Self, pos))

SetCurrentCommandEndCall ==
    \E pos \in {_cursor} :
        Does("SetCurrentCommandEnd", 0, SetCurrentCommandEnd(Self, pos))

SetCurrentOutputEndCall ==
    \E pos \in {_cursor}, category \in MarkCategories :
        Does("SetCurrentOutputEnd", 0, SetCurrentOutputEnd(Self, pos, category))

NextMarks ==
    \/ StartPromptMarkCall
    \/ AddMarkCall
    \/ ScrollMarksCall
    \/ ClearMarksInRangeCall
    \/ ClearAllMarksCall
    \/ SetCurrentPromptEndCall
    \/ SetCurrentCommandEndCall
    \/ SetCurrentOutputEndCall
    \/ ResizeTraditionalCall
    \/ ReflowCall

SpecMarks == Init /\ [][NextMarks]_vars

\* ================================================================= claims
\* C1: in every reachable state, whatever sequence of InsertCharacter,
\* IncrementCursor, NewlineCursor, IncrementCircularBuffer, Reset,
\* ResizeTraditional and Reflow led to it, 0 <= firstRow < height.
C1_FirstRowInRange == 0 <= _firstRow /\ _firstRow < _height

\* The ring of a buffer of two rows or more went once around and firstRow
\* is back at 0.
C1_Witness ==
    /\ ret.op = "IncrementCircularBuffer"
    /\ _height >= 2
    /\ rotation.count >= _height
    /\ _firstRow = 0

\* The cursor is on a row of the buffer and on a column of that row's line
\* width.
CursorInBounds ==
    /\ 0 <= _cursor.y /\ _cursor.y < _height
    /\ 0 <= _cursor.x /\ _cursor.x < GetLineWidth(Self, _cursor.y)

\* C2: after InsertCharacter, IncrementCursor, NewlineCursor,
\* SetCurrentLineRendition, ResetLineRenditionRange, Reset or
\* ResizeTraditional returns, the cursor has 0 <= y < height and
\* 0 <= x < the line width of row y, for every buffer size from 1x1.
C2_CursorInBounds ==
    ret.op \in {"InsertCharacter", "IncrementCursor", "NewlineCursor",
                "SetCurrentLineRendition", "ResetLineRenditionRange", "Reset",
                "ResizeTraditional"}
        => CursorInBounds

\* C3: for all y and any k >= 0, after k calls of IncrementCircularBuffer
\* GetRowByOffset(y) designates the row that GetRowByOffset(y + k), taken
\* modulo the height, designated before the k rotations.
C3_RotationShiftsRows ==
    \A y \in RowOffsets :
        _getRowSlot(Self, y)
            = _getRowSlot([Self EXCEPT !.firstRow = rotation.from], y + rotation.count)

\* A ring of two rows or more was rotated further than once around, and not
\* by a multiple of its height.
C3_Witness ==
    /\ _height >= 2
    /\ rotation.count > _height
    /\ rotation.count % _height # 0

\* The slot ((firstRow + y) mod height) + 1, with the non-negative modulus.
ModularSlot(y) == ((_firstRow + y) % _height) + 1

\* C4: for every integer y, negative and beyond the height included,
\* GetRowByOffset(y) and GetMutableRowByOffset(y) address the slot
\* ((firstRow + y) mod height) + 1, which lies in [1, height] and is never
\* the scratchpad slot 0; the call leaves that slot constructed; the mutable
\* variant adds exactly one to the mutation counter and the read-only
\* variant leaves the counter unchanged.
C4_ModularAddressing ==
    /\ [](\A y \in RowOffsets :
              /\ _getRowSlot(Self, y) = ModularSlot(y)
              /\ _getRowSlot(Self, y) \in 1.._height)
    /\ [][/\ ret'.op = "GetRowByOffset"
              => /\ _lastMutationId' = _lastMutationId
                 /\ constructed'[ModularSlot(ret'.arg)] = 1
          /\ ret'.op = "GetMutableRowByOffset"
              => /\ _lastMutationId' = _lastMutationId + 1
                 /\ constructed'[ModularSlot(ret'.arg)] = 1]_vars

\* GetMutableRowByOffset was called with a negative y that leaves a
\* negative remainder, on a ring that had been rotated.
C4_Witness ==
    /\ ret.op = "GetMutableRowByOffset"
    /\ ret.arg < 0
    /\ _firstRow > 0
    /\ CRem(_firstRow + ret.arg, _height) < 0

\* The calls that put other storage in the place of the buffer's rows.
ReplacesStorage(op) == op \in {"ResizeTraditional", "Reflow"}

\* C5: over any sequence of row accesses, scratchpad accesses, ring
\* rotations, cursor movements and Reset on one buffer instance,
\* commitWatermark never decreases.
C5_WatermarkNeverDecreases ==
    [][~ReplacesStorage(ret'.op) => _commitWatermark' >= _commitWatermark]_vars

\* C5 as the code has it: over row accesses, scratchpad accesses, ring
\* rotations and cursor movements commitWatermark never decreases, and Reset
\* puts it back at the base of the reserved range.
C5_WatermarkAdvancesUntilReset ==
    [][/\ ret'.op = "Reset" => _commitWatermark' = 0
       /\ ~ReplacesStorage(ret'.op) /\ ret'.op # "Reset"
              => _commitWatermark' >= _commitWatermark]_vars

\* Reset ran on a buffer whose rows had been written to.
C5_Witness ==
    /\ ret.op = "Reset"
    /\ MutationCount > 0
    /\ _commitWatermark = 0

\* C6: in every reachable state the constructed rows are exactly the slots
\* below commitWatermark, each constructed once; touching a slot at or above
\* the watermark moves the watermark to the end of that slot plus the
\* read-ahead count of rows, capped at the end of the reserved range, and
\* touching a slot below it leaves the watermark alone; the row returned by
\* GetRowByOffset, GetMutableRowByOffset or GetScratchpadRow is constructed.
C6_ConstructedBelowWatermark ==
    /\ [](/\ _commitWatermark \in 0..(_height + 1)
          /\ \A s \in 0.._height :
                 /\ constructed[s] = (IF s < _commitWatermark THEN 1 ELSE 0)
                 /\ (rows[s] = Unconstructed) = (s >= _commitWatermark)
          /\ ret.op \in {"GetRowByOffset", "GetMutableRowByOffset"}
                 => rows[_getRowSlot(Self, ret.arg)] # Unconstructed
          /\ ret.op = "GetScratchpadRow" => rows[0] # Unconstructed)
    /\ [][LET touched == IF ret'.op = "GetScratchpadRow" THEN 0 ELSE ModularSlot(ret'.arg)
          IN  ret'.op \in {"GetRowByOffset", "GetMutableRowByOffset", "GetScratchpadRow"}
                  => _commitWatermark'
                         = (IF touched >= _commitWatermark
                            THEN Min(touched + 1 + CommitReadAheadRowCount, _height + 1)
                            ELSE _commitWatermark)]_vars

\* The first touch of the scratchpad row committed it and the read-ahead
\* rows, and left the end of the reserved range uncommitted.
C6_Witness ==
    /\ ret.op = "GetScratchpadRow"
    /\ _commitWatermark = 1 + CommitReadAheadRowCount
    /\ _commitWatermark < _height + 1
    /\ constructed[_height] = 0

\* The hyperlink ids the rows of the buffer reference.
ReferencedIds ==
    UNION {RowGetHyperlinks(rows[s]) : s \in {t \in 1.._height : t < _commitWatermark}}

\* The ids the registry holds, in the id-to-URI map or the custom-id map.
RegisteredIds ==
    DOMAIN _hyperlinkMap
        \cup {_hyperlinkCustomIdMap[k] : k \in DOMAIN _hyperlinkCustomIdMap}

\* C7: after any sequence of writes and ring rotations, every hyperlink id
\* that some row of the buffer references resolves in the id-to-URI map.
C7_ReferencedIdsResolve == ReferencedIds \subseteq DOMAIN _hyperlinkMap

\* C8: once IncrementCircularBuffer has returned, the id-to-URI map and the
\* custom-id map hold no id that no row of the buffer references.
C8_UnreferencedIdsPurged ==
    ret.op = "IncrementCircularBuffer" => RegisteredIds \subseteq ReferencedIds

\* C9: after Reflow(oldBuffer, newBuffer), for any sizes from 1x1 and any
\* old cursor position, the new buffer's cursor lies in
\* [0, newWidth) x [0, newHeight): the two assertions on newCursorPos hold.
C9_ReflowCursorInBounds ==
    ret.op = "Reflow"
        => /\ 0 <= _cursor.x /\ _cursor.x < _width
           /\ 0 <= _cursor.y /\ _cursor.y < _height

\* C10: after any sequence of StartPromptMark, AddMark, ScrollMarks,
\* ClearMarksInRange, SetCurrent*End, ResizeTraditional and Reflow, every
\* stored mark has its start.y in [0, height).
C10_MarksStartInBuffer ==
    \A i \in 1..Len(_marks) : 0 <= _marks[i].start.y /\ _marks[i].start.y < _height

\* A mark whose start, commandEnd and outputEnd are moved down by delta rows.
MarkMovedBy(m, delta) ==
    [m EXCEPT !.start.y = @ + delta,
              !.commandEnd = IF @ = NoPoint THEN @ ELSE [x |-> @.x, y |-> @.y + delta],
              !.outputEnd = IF @ = NoPoint THEN @ ELSE [x |-> @.x, y |-> @.y + delta]]

\* C11: ScrollMarks(delta) adds delta to the y of every mark's start and of
\* the commandEnd and outputEnd that are present, then drops exactly the
\* marks whose moved start.y is outside [0, height); the marks that stay keep
\* their order.
C11_ScrollMarksShiftsAndTrims ==
    [][ret'.op = "ScrollMarks" =>
         _marks' = SelectSeq([i \in 1..Len(_marks) |-> MarkMovedBy(_marks[i], ret'.arg)],
                             LAMBDA m : m.start.y >= 0 /\ m.start.y < _height)]_vars

\* A scroll has moved a mark that has a command end: the end is above the
\* buffer, where only a scroll can put it, and the mark's start is still inside.
C11_Witness ==
    /\ ret.op = "ScrollMarks"
    /\ \E i \in 1..Len(_marks) :
           /\ _marks[i].commandEnd # NoPoint
           /\ _marks[i].commandEnd.y < 0
           /\ _marks[i].start.y = 0

\* The three calls that write to the current prompt.
PromptSetters == {"SetCurrentPromptEnd", "SetCurrentCommandEnd", "SetCurrentOutputEnd"}

\* C12: the mark the three setters write to is the one StartPromptMark
\* appended last; a mark added by AddMark is never treated as the current
\* prompt, so a setter called when the only mark stored is one AddMark has
\* just put there changes no mark; with no marks the setters change nothing.
C12_AddedMarkNeverCurrentPrompt ==
    [][/\ ret'.op \in PromptSetters
       /\ \/ _marks = <<>>
          \/ ret.op = "AddMark" /\ Len(_marks) = 1
       => _marks' = _marks]_vars

\* Where the row the cursor was on is after an InsertCharacter that left it:
\* one row up when the ring has rotated, -1 when the row has left the buffer.
RowLeftBehind == IF _cursor.y < _height - 1 THEN _cursor.y ELSE _height - 2

\* C13: when InsertCharacter writes the leading cell of a two-column glyph
\* with the cursor in the last column of its row, that column holds a space
\* afterwards, the row's double-byte-pad flag is set, and the glyph is at
\* column 0 of the next row (the ring rotating when the row was the last).
C13_LeadingAtLastColumnPads ==
    [][/\ ret'.op = "InsertCharacter"
       /\ ret'.arg = "Leading"
       /\ CursorInBounds
       /\ GetLineWidth(Self, _cursor.y) >= 2
       /\ _cursor.x = GetLineWidth(Self, _cursor.y) - 1
       /\ RowLeftBehind >= 0
       => /\ RowAt(Self', RowLeftBehind).chars[_cursor.x + 1] = " "
          /\ RowAt(Self', RowLeftBehind).doubleBytePadded
          /\ RowAt(Self', RowLeftBehind + 1).chars[1] = "W"]_vars

\* The cells of a row hold whole glyphs: a leading cell is followed by its
\* trailing cell in the same row and a trailing cell follows its leading cell.
GlyphsWhole(chars) ==
    \A c \in 1..Len(chars) :
        /\ chars[c] = "W" => c < Len(chars) /\ chars[c + 1] = "w"
        /\ chars[c] = "w" => c > 1 /\ chars[c - 1] = "W"

MaxTextLength == 3
MaxColumnLimit == 4

\* UTF-16 code units by class: "a" is ASCII, "n" a narrow character of
\* 0x80 and above, "W" a wide character of the basic plane, "H" a leading
\* and "L" a trailing surrogate.
CodeUnits == {"a", "n", "W", "H", "L"}

RECURSIVE TextsOfLength(_)
TextsOfLength(n) ==
    IF n = 0 THEN {<<>>}
    ELSE {Append(t, c) : t \in TextsOfLength(n - 1), c \in CodeUnits}

Texts == UNION {TextsOfLength(n) : n \in 0..MaxTextLength}

ColumnLimits == (0 - 1)..MaxColumnLimit

\* U+FFFD, which stands for a surrogate without its partner.
UNICODE_REPLACEMENT == "R"

is_leading_surrogate(wch) == wch = "H"

is_trailing_surrogate(wch) == wch = "L"

is_surrogate(wch) == is_leading_surrogate(wch) \/ is_trailing_surrogate(wch)

\* IsGlyphFullWidth(glyph), as the number it adds to the column count: the
\* wide character and the surrogate pair take a second column.
IsGlyphFullWidth(glyph) == IF glyph = <<"W">> \/ glyph = <<"H", "L">> THEN 1 ELSE 0

\* The ASCII fast path: the position the first loop stops at.
RECURSIVE FitAsciiRun(_, _, _)
FitAsciiRun(chars, it, asciiEnd) ==
    IF it # asciiEnd /\ chars[it + 1] = "a"
    THEN FitAsciiRun(chars, it + 1, asciiEnd)
    ELSE it

\* The columns reported when the budget has run out.
ColumnsCounted(columnLimit, col) == col

ColumnsWhenOut(columnLimit, col) == columnLimit

\* The test for having run out of columns.
RanOutOfColumnsEarly(col, columnLimit) == col >= columnLimit

RanOutOfColumns(col, columnLimit) == col > columnLimit

\* The number of code units of the glyph at position it.
FitGlyphLength(chars, it) ==
    IF /\ is_leading_surrogate(chars[it + 1])
       /\ it + 1 # Len(chars)
       /\ is_trailing_surrogate(chars[it + 2])
    THEN 2 ELSE 1

\* The glyph IsGlyphFullWidth is asked about at position it.
FitGlyph(chars, it) ==
    IF is_surrogate(chars[it + 1])
    THEN IF FitGlyphLength(chars, it) = 2 THEN <<chars[it + 1], chars[it + 2]>>
         ELSE <<UNICODE_REPLACEMENT>>
    ELSE <<chars[it + 1]>>

\* The Unicode slow path, one glyph per round.
RECURSIVE FitSlowPath(_, _, _, _)
FitSlowPath(chars, columnLimit, it, col) ==
    IF RanOutOfColumns(col + 1 + (IF chars[it + 1] = "a" THEN 0
                                  ELSE IsGlyphFullWidth(FitGlyph(chars, it))),
                       columnLimit)
    THEN [chars |-> it, columns |-> ColumnsWhenOut(columnLimit, col + 1)]
    ELSE IF it + FitGlyphLength(chars, it) = Len(chars)
    THEN [chars |-> Len(chars),
          columns |-> col + 1 + (IF chars[it + 1] = "a" THEN 0
                                 ELSE IsGlyphFullWidth(FitGlyph(chars, it)))]
    ELSE FitSlowPath(chars, columnLimit, it + FitGlyphLength(chars, it),
                     col + 1 + (IF chars[it + 1] = "a" THEN 0
                                ELSE IsGlyphFullWidth(FitGlyph(chars, it))))

\* The rest of FitTextIntoColumns once the fast path has stopped at dist.
FitAfterAscii(chars, columnLimit, asciiEnd, dist) ==
    IF dist = asciiEnd THEN [chars |-> dist, columns |-> dist]
    ELSE FitSlowPath(chars, columnLimit, dist, dist)

\* TextBuffer::FitTextIntoColumns(chars, columnLimit, columns): the number of
\* code units returned and the value left in columns.
FitTextIntoColumns(chars, columnLimit) ==
    FitAfterAscii(chars, Max(0, columnLimit),
                  Min(Len(chars), Max(0, columnLimit)),
                  FitAsciiRun(chars, 0, Min(Len(chars), Max(0, columnLimit))))

\* A caller measures a text against a column budget.
FitTextIntoColumnsCall ==
    \E chars \in Texts, columnLimit \in ColumnLimits :
        /\ ret' = [op |-> "FitTextIntoColumns",
                   arg |-> [chars |-> chars, columnLimit |-> columnLimit],
                   value |-> FitTextIntoColumns(chars, columnLimit)]
        /\ UNCHANGED <<_width, _height, _firstRow, _commitWatermark, constructed,
                       rows, _cursor, _lastMutationId, _currentAttributes,
                       _initialAttributes, _isActiveBuffer, _hyperlinkMap,
                       _hyperlinkCustomIdMap, _currentHyperlinkId, _marks,
                       s_lastMutationIdInitialValue, renderer, rotation,
                       screenInfo, writing>>

NextFit == FitTextIntoColumnsCall

\* FitTextIntoColumns is static: the buffer beside it is one new buffer.
InitFit ==
    /\ StartsAs(NewTextBuffer(1, 1, DefaultAttribute, TRUE, 0))
    /\ s_lastMutationIdInitialValue = MutationIdStride
    /\ ret = Called("TextBuffer", 0)

SpecFit == InitFit /\ [][NextFit]_vars

\* The glyphs of a text, each with its number of code units and of columns:
\* a leading surrogate with its trailing surrogate is one glyph of two
\* columns, the wide character is one of two columns, all else is one column.
RECURSIVE GlyphsOf(_)
GlyphsOf(chars) ==
    IF chars = <<>> THEN <<>>
    ELSE LET pair == Len(chars) >= 2 /\ chars[1] = "H" /\ chars[2] = "L"
             len == IF pair THEN 2 ELSE 1
         IN  <<[len |-> len, width |-> IF pair \/ chars[1] = "W" THEN 2 ELSE 1]>>
             \o GlyphsOf(SubSeq(chars, len + 1, Len(chars)))

\* Code units and columns of the first k glyphs.
RECURSIVE GlyphsLength(_, _)
GlyphsLength(glyphs, k) == IF k = 0 THEN 0 ELSE GlyphsLength(glyphs, k - 1) + glyphs[k].len

RECURSIVE GlyphsWidth(_, _)
GlyphsWidth(glyphs, k) == IF k = 0 THEN 0 ELSE GlyphsWidth(glyphs, k - 1) + glyphs[k].width

\* The number of leading glyphs that fit into `budget` columns.
GlyphsFitting(glyphs, budget) ==
    CHOOSE k \in 0..Len(glyphs) :
        /\ GlyphsWidth(glyphs, k) <= budget
        /\ k < Len(glyphs) => GlyphsWidth(glyphs, k + 1) > budget

\* What a text measured against a budget has to give: the code units of the
\* glyphs that fit, and the columns they take when the text ends within the
\* budget, the whole budget otherwise.
Fitted(chars, budget) ==
    LET glyphs == GlyphsOf(chars)
        k == GlyphsFitting(glyphs, budget)
    IN  [chars |-> GlyphsLength(glyphs, k),
         columns |-> IF k = Len(glyphs) THEN GlyphsWidth(glyphs, k) ELSE budget]

\* C15: FitTextIntoColumns(text, limit, cols) returns the number of leading
\* characters that fit into max(0, limit) columns and sets cols to at most
\* max(0, limit): to the columns used when all of the text fits, to the full
\* budget when the budget runs out before the text ends.
C15_FitsLeadingText ==
    ret.op = "FitTextIntoColumns" =>
        /\ ret.value = Fitted(ret.arg.chars, Max(0, ret.arg.columnLimit))
        /\ ret.value.columns <= Max(0, ret.arg.columnLimit)

\* The budget ran out on a glyph of two columns with one column left: the
\* text before it took one column less than the budget reported as used.
C15_Witness ==
    /\ ret.op = "FitTextIntoColumns"
    /\ ret.value.chars < Len(ret.arg.chars)
    /\ ret.value.chars > 0
    /\ ret.value.columns = ret.arg.columnLimit
    /\ GlyphsWidth(GlyphsOf(SubSeq(ret.arg.chars, 1, ret.value.chars)),
                   Len(GlyphsOf(SubSeq(ret.arg.chars, 1, ret.value.chars))))
           = ret.arg.columnLimit - 1

\* Column a is a boundary between glyphs of the text laid out from column 0,
\* or lies at or past its end: a budget of a columns cuts no glyph in two.
SplitsBetweenGlyphs(chars, a) ==
    \/ \E k \in 0..Len(GlyphsOf(chars)) : GlyphsWidth(GlyphsOf(chars), k) = a
    \/ a >= GlyphsWidth(GlyphsOf(chars), Len(GlyphsOf(chars)))

\* The code units and columns of two calls in a row: the text against a
\* columns, then what the first call left against b columns.
FitSecond(chars, first, b) ==
    [chars |-> first.chars
                 + FitTextIntoColumns(SubSeq(chars, first.chars + 1, Len(chars)), b).chars,
     columns |-> first.columns
                   + FitTextIntoColumns(SubSeq(chars, first.chars + 1, Len(chars)), b).columns]

FitSplit(chars, a, b) == FitSecond(chars, FitTextIntoColumns(chars, a), b)

\* C16: measuring a text against a columns and then what is left of it
\* against b columns consumes as many characters and columns in total as
\* measuring the whole text against a + b columns, provided the budget a
\* ends between two glyphs and not inside one.
C16_SplitFitsAlike ==
    ret.op = "FitTextIntoColumns" =>
        \A a \in 0..Max(0, ret.arg.columnLimit) :
            SplitsBetweenGlyphs(ret.arg.chars, a) =>
                FitSplit(ret.arg.chars, a, Max(0, ret.arg.columnLimit) - a) = ret.value

\* A text with a glyph of two columns has been measured whole, and a split
\* of its budget into two parts that both consume text cuts no glyph.
C16_Witness ==
    /\ ret.op = "FitTextIntoColumns"
    /\ \E i \in 1..Len(ret.arg.chars) : ret.arg.chars[i] = "W"
    /\ \E a \in 1..(ret.arg.columnLimit - 1) :
           /\ SplitsBetweenGlyphs(ret.arg.chars, a)
           /\ FitTextIntoColumns(ret.arg.chars, a).chars > 0
           /\ FitSplit(ret.arg.chars, a, ret.arg.columnLimit - a).chars
                  > FitTextIntoColumns(ret.arg.chars, a).chars
           /\ ret.value.chars < Len(ret.arg.chars)

\* The buffer b reflowed into a new buffer of the given width and of b's height.
ReflowedTo(b, width) ==
    Reflow(b, NewTextBuffer(width, b.height, DefaultAttribute, b.isActiveBuffer,
                            s_lastMutationIdInitialValue))

\* The cells of every row of b, top to bottom.
VisibleText(b) == [y \in 0..(b.height - 1) |-> RowAt(b, y).chars]

\* Every row of the live buffer is of single width.
AllSingleWidth == \A y \in 0..(_height - 1) : ~IsDoubleWidthLine(Self, y)

\* C17: reflowing the buffer to a larger width and the result back to the
\* original width reproduces the visible text of every row; rows of another
\* rendition than single width are left out.
C17_ReflowRoundTrip ==
    (AllSingleWidth /\ CursorInBounds) =>
        \A width \in (_width + 1)..(MaxWidth + 1) :
            (/\ ~ReflowedTo(Self, width).diverged
             /\ ~ReflowedTo(ReflowedTo(Self, width).new, _width).diverged)
            => VisibleText(ReflowedTo(ReflowedTo(Self, width).new, _width).new)
                   = VisibleText(Self)

\* -------------------------------------------------------- word navigation
\* Viewport of GetSize(): the corners of the buffer and the walk over its
\* cells in reading order.
Origin == [x |-> 0, y |-> 0]

BottomRightInclusive(b) == [x |-> b.width - 1, y |-> b.height - 1]

EndExclusive(b) == [x |-> 0, y |-> b.height]

\* Viewport::CompareInBounds(first, second, allowEndExclusive)
CompareInBounds(b, first, second) ==
    (first.y * b.width + first.x) - (second.y * b.width + second.x)

\* Viewport::WalkInBounds(pos, delta, allowEndExclusive): the position after.
WalkInBounds(b, pos, delta, allowEndExclusive) ==
    LET max == b.width * b.height - (IF allowEndExclusive THEN 0 ELSE 1)
        off == Max(0, Min(max, pos.y * b.width + pos.x + delta))
    IN  [x |-> off % b.width, y |-> off \div b.width]

IncrementInBounds(b, pos) == WalkInBounds(b, pos, 1, FALSE)

DecrementInBounds(b, pos) == WalkInBounds(b, pos, 0 - 1, FALSE)

\* Viewport::IncrementInBoundsCircular(pos): the last cell is followed by
\* the first.
IncrementInBoundsCircular(b, pos) ==
    IF pos = BottomRightInclusive(b) THEN Origin ELSE IncrementInBounds(b, pos)

\* ROW::DelimiterClassAt(column, wordDelimiters) of the glyph a cell shows.
RowDelimiterClassAt(row, column, wordDelimiters) ==
    LET cell == row.chars[ClampedColumn(row, column) + 1]
        glyph == IF cell = "w" THEN "W" ELSE cell
    IN  IF glyph = " " THEN "ControlChar"
        ELSE IF glyph \in wordDelimiters THEN "DelimiterChar"
        ELSE "RegularChar"

\* TextBuffer::_GetDelimiterClassAt(pos, wordDelimiters)
_GetDelimiterClassAt(b, pos, wordDelimiters) ==
    RowDelimiterClassAt(RowAt(b, pos.y), pos.x, wordDelimiters)

\* The loops of _GetWordStartForAccessibility: leftwards while the class of
\* the cell is (readable = TRUE) or is not (readable = FALSE) RegularChar;
\* returned tells that the loop left the function at the origin.
RECURSIVE WordStartWalk(_, _, _, _)
WordStartWalk(b, result, wordDelimiters, readable) ==
    IF (_GetDelimiterClassAt(b, result, wordDelimiters) = "RegularChar") = readable
    THEN IF result = Origin THEN [pos |-> result, returned |-> TRUE]
         ELSE WordStartWalk(b, DecrementInBounds(b, result), wordDelimiters, readable)
    ELSE [pos |-> result, returned |-> FALSE]

WordStartAfterWalk(b, walk) ==
    IF walk.returned THEN walk.pos ELSE IncrementInBounds(b, walk.pos)

WordStartOfReadable(b, walk, wordDelimiters) ==
    IF walk.returned THEN walk.pos
    ELSE WordStartAfterWalk(b, WordStartWalk(b, walk.pos, wordDelimiters, TRUE))

\* TextBuffer::_GetWordStartForAccessibility(target, wordDelimiters)
_GetWordStartForAccessibility(b, target, wordDelimiters) ==
    WordStartOfReadable(b, WordStartWalk(b, target, wordDelimiters, FALSE), wordDelimiters)

\* The loop of _GetWordStartForSelection.
RECURSIVE SelectionStartWalk(_, _, _, _)
SelectionStartWalk(b, result, wordDelimiters, initialDelimiter) ==
    IF result # Origin /\ _GetDelimiterClassAt(b, result, wordDelimiters) = initialDelimiter
    THEN IF initialDelimiter = "ControlChar" /\ result.x = 0 THEN result
         ELSE SelectionStartWalk(b, DecrementInBounds(b, result), wordDelimiters,
                                 initialDelimiter)
    ELSE result

\* A _GetWordStartForSelection that stays on the cell its loop stopped at.
SelectionStartNotSteppedForward(b, result, wordDelimiters, initialDelimiter) == result

SelectionStartAfterWalk(b, result, wordDelimiters, initialDelimiter) ==
    IF _GetDelimiterClassAt(b, result, wordDelimiters) # initialDelimiter
    THEN IncrementInBounds(b, result)
    ELSE result

\* TextBuffer::_GetWordStartForSelection(target, wordDelimiters)
_GetWordStartForSelection(b, target, wordDelimiters) ==
    SelectionStartAfterWalk(
        b,
        SelectionStartWalk(b, target, wordDelimiters,
                           _GetDelimiterClassAt(b, target, wordDelimiters)),
        wordDelimiters, _GetDelimiterClassAt(b, target, wordDelimiters))

\* The position GetWordStart starts from.
WordStartCopy(b, target) ==
    IF target = EndExclusive(b) THEN BottomRightInclusive(b)
    ELSE IF CompareInBounds(b, target, EndExclusive(b)) >= 0 THEN BottomRightInclusive(b)
    ELSE target

\* TextBuffer::GetWordStart(target, wordDelimiters, accessibilityMode), with
\* no limit given.
GetWordStart(b, target, wordDelimiters, accessibilityMode) ==
    IF target = Origin THEN target
    ELSE IF accessibilityMode
    THEN _GetWordStartForAccessibility(b, WordStartCopy(b, target), wordDelimiters)
    ELSE _GetWordStartForSelection(b, WordStartCopy(b, target), wordDelimiters)

\* The loops of _GetWordEndForAccessibility: rightwards while the class of
\* the cell is (readable = TRUE) or is not (readable = FALSE) RegularChar.
RECURSIVE WordEndWalk(_, _, _, _, _)
WordEndWalk(b, result, wordDelimiters, limit, readable) ==
    IF /\ result # limit
       /\ result # BottomRightInclusive(b)
       /\ (_GetDelimiterClassAt(b, result, wordDelimiters) = "RegularChar") = readable
    THEN WordEndWalk(b, IncrementInBounds(b, result), wordDelimiters, limit, readable)
    ELSE result

\* Where the two loops of _GetWordEndForAccessibility stop.
WordEndStop(b, target, wordDelimiters, limit) ==
    WordEndWalk(b, WordEndWalk(b, target, wordDelimiters, limit, TRUE),
                wordDelimiters, limit, FALSE)

\* A _GetWordEndForAccessibility that never steps onto the EndExclusive point.
WordEndNotSteppedPast(b, result) == result

WordEndAfterStop(b, result) ==
    IF result = BottomRightInclusive(b) THEN WalkInBounds(b, result, 1, TRUE) ELSE result

\* TextBuffer::_GetWordEndForAccessibility(target, wordDelimiters, limit)
_GetWordEndForAccessibility(b, target, wordDelimiters, limit) ==
    IF CompareInBounds(b, target, limit) >= 0
    THEN WalkInBounds(b, limit, 1, TRUE)
    ELSE WordEndAfterStop(b, WordEndStop(b, target, wordDelimiters, limit))

\* The loop of _GetWordEndForSelection.
RECURSIVE SelectionEndWalk(_, _, _, _)
SelectionEndWalk(b, result, wordDelimiters, initialDelimiter) ==
    IF /\ result # BottomRightInclusive(b)
       /\ _GetDelimiterClassAt(b, result, wordDelimiters) = initialDelimiter
    THEN IF initialDelimiter = "ControlChar" /\ result.x = b.width - 1 THEN result
         ELSE SelectionEndWalk(b, IncrementInBoundsCircular(b, result), wordDelimiters,
                               initialDelimiter)
    ELSE result

\* Where the loop of _GetWordEndForSelection stops.
SelectionEndStop(b, target, wordDelimiters) ==
    SelectionEndWalk(b, target, wordDelimiters,
                     _GetDelimiterClassAt(b, target, wordDelimiters))

SelectionEndNotSteppedBack(b, result, wordDelimiters, initialDelimiter) == result

SelectionEndAfterStop(b, result, wordDelimiters, initialDelimiter) ==
    IF _GetDelimiterClassAt(b, result, wordDelimiters) # initialDelimiter
    THEN DecrementInBounds(b, result)
    ELSE result

\* TextBuffer::_GetWordEndForSelection(target, wordDelimiters)
_GetWordEndForSelection(b, target, wordDelimiters) ==
    SelectionEndAfterStop(b, SelectionEndStop(b, target, wordDelimiters), wordDelimiters,
                          _GetDelimiterClassAt(b, target, wordDelimiters))

\* TextBuffer::GetWordEnd(target, wordDelimiters, accessibilityMode), with no
\* limit given.
GetWordEnd(b, target, wordDelimiters, accessibilityMode) ==
    IF CompareInBounds(b, target, EndExclusive(b)) >= 0 THEN target
    ELSE IF accessibilityMode
    THEN _GetWordEndForAccessibility(b, target, wordDelimiters, EndExclusive(b))
    ELSE _GetWordEndForSelection(b, target, wordDelimiters)

\* The last row GetWordEnd reads.
WordEndReach(b, target, wordDelimiters, accessibilityMode) ==
    IF accessibilityMode THEN WordEndStop(b, target, wordDelimiters, EndExclusive(b)).y
    ELSE SelectionEndStop(b, target, wordDelimiters).y

\* The sets of word delimiters callers pass.
WordDelimiters == {{}, {"a"}}

\* The cells of the buffer.
Cells == [x : 0..(_width - 1), y : 0..(_height - 1)]

\* A caller asks where the word at a cell starts; the rows read are
\* committed, the highest of them being the row of the cell. No row is read
\* for the origin.
GetWordStartCall ==
    \E target \in Cells, wordDelimiters \in WordDelimiters, accessibilityMode \in BOOLEAN :
        /\ Install(IF target = Origin THEN Self ELSE GetRowByOffset(Self, target.y))
        /\ ret' = [op |-> "GetWordStart",
                   arg |-> [target |-> target, wordDelimiters |-> wordDelimiters,
                            accessibilityMode |-> accessibilityMode],
                   value |-> GetWordStart(Self, target, wordDelimiters, accessibilityMode)]
        /\ UNCHANGED s_lastMutationIdInitialValue

\* A caller asks where the word at a cell ends.
GetWordEndCall ==
    \E target \in Cells, wordDelimiters \in WordDelimiters, accessibilityMode \in BOOLEAN :
        /\ Install(GetRowByOffset(Self, WordEndReach(Self, target, wordDelimiters,
                                                     accessibilityMode)))
        /\ ret' = [op |-> "GetWordEnd",
                   arg |-> [target |-> target, wordDelimiters |-> wordDelimiters,
                            accessibilityMode |-> accessibilityMode],
                   value |-> GetWordEnd(Self, target, wordDelimiters, accessibilityMode)]
        /\ UNCHANGED s_lastMutationIdInitialValue

NextWords ==
    \/ SetCursorPositionCall
    \/ InsertCharacterCall
    \/ GetWordStartCall
    \/ GetWordEndCall

SpecWords == Init /\ [][NextWords]_vars

\* The cell e bounds a word: as the inclusive end of a selection word it is
\* the last cell of a run of one delimiter class (the last cell of the
\* buffer, a cell before one of another class, or a ControlChar cell in the
\* last column); as the exclusive end of an accessibility word it is the
\* first cell of a readable run that follows another cell, or the point past
\* the buffer.
WordBoundary(b, e, wordDelimiters, accessibilityMode) ==
    IF accessibilityMode
    THEN \/ e = EndExclusive(b)
         \/ /\ CompareInBounds(b, e, EndExclusive(b)) < 0
            /\ e # Origin
            /\ _GetDelimiterClassAt(b, e, wordDelimiters) = "RegularChar"
            /\ _GetDelimiterClassAt(b, DecrementInBounds(b, e), wordDelimiters)
                   # "RegularChar"
    ELSE /\ CompareInBounds(b, e, EndExclusive(b)) < 0
         /\ \/ e = BottomRightInclusive(b)
            \/ _GetDelimiterClassAt(b, IncrementInBounds(b, e), wordDelimiters)
                   # _GetDelimiterClassAt(b, e, wordDelimiters)
            \/ /\ _GetDelimiterClassAt(b, e, wordDelimiters) = "ControlChar"
               /\ e.x = b.width - 1

\* GetWordEnd(GetWordStart(p)) is at or after GetWordStart(p) and bounds a word.
WordEndOfStart(b, start, wordDelimiters, accessibilityMode) ==
    /\ CompareInBounds(b, GetWordEnd(b, start, wordDelimiters, accessibilityMode), start) >= 0
    /\ WordBoundary(b, GetWordEnd(b, start, wordDelimiters, accessibilityMode),
                    wordDelimiters, accessibilityMode)

\* C18: for every position p of the buffer, GetWordEnd(GetWordStart(p)) is at
\* or after the start of p's word and is the boundary of that word or of the
\* next one, in selection mode and in accessibility mode.
C18_WordEndOfWordStart ==
    \A p \in Cells, wordDelimiters \in WordDelimiters, accessibilityMode \in BOOLEAN :
        WordEndOfStart(Self, GetWordStart(Self, p, wordDelimiters, accessibilityMode),
                       wordDelimiters, accessibilityMode)

\* GetWordEnd has been called at the start of the word of a later cell, in a
\* buffer of two columns that holds a glyph and a blank, and its answer is
\* another cell than the start.
C18_Witness ==
    /\ ret.op = "GetWordEnd"
    /\ _width = 2
    /\ ret.value # ret.arg.target
    /\ \E p \in Cells :
           /\ p # ret.arg.target
           /\ ret.arg.target = GetWordStart(Self, p, ret.arg.wordDelimiters,
                                            ret.arg.accessibilityMode)
    /\ \E c \in Cells : _GetDelimiterClassAt(Self, c, {}) = "RegularChar"
    /\ \E c \in Cells : _GetDelimiterClassAt(Self, c, {}) = "ControlChar"

\* ------------------------------------------------------ mutation counters
\* The seed the live instance was constructed with, where every instance
\* constructed becomes the live one: the static seed has moved on by one
\* stride since.
LiveSeed == s_lastMutationIdInitialValue - MutationIdStride

\* A caller asks for a row of the buffer to change it, for as long as the
\* counter has not passed the seed of the instance constructed next.
GetMutableRowByOffsetAgainCall ==
    /\ _lastMutationId < s_lastMutationIdInitialValue
    /\ \E y \in 0..(_height - 1) :
           Does("GetMutableRowByOffset", y, GetMutableRowByOffset(Self, y))

NextCounters ==
    \/ GetMutableRowByOffsetAgainCall
    \/ ReflowCall

SpecCounters == Init /\ [][NextCounters]_vars

TriggerMethods ==
    {"TriggerRedraw", "TriggerRedrawCursor", "TriggerRedrawAll", "TriggerScroll",
     "TriggerNewTextNotification"}

\* TextBuffer::SetAsActiveBuffer(isActiveBuffer)
SetAsActiveBuffer(b, isActiveBuffer) == [b EXCEPT !.isActiveBuffer = isActiveBuffer]

SetAsActiveBufferCall ==
    \E isActiveBuffer \in BOOLEAN :
        Does("SetAsActiveBuffer", 0, SetAsActiveBuffer(Self, isActiveBuffer))

\* A caller asks the buffer to notify the renderer.
TriggerCall ==
    \E what \in TriggerMethods : Does(what, 0, Trigger(Self, what))

\* The state after the constructor ran for an active or an inactive buffer.
InitRenderer ==
    \E size \in Sizes, isActiveBuffer \in BOOLEAN :
        /\ StartsAs(NewTextBuffer(size[1], size[2], DefaultAttribute, isActiveBuffer, 0))
        /\ s_lastMutationIdInitialValue = MutationIdStride
        /\ ret = Called("TextBuffer", 0)

NextRenderer ==
    \/ SetAsActiveBufferCall
    \/ TriggerCall
    \/ SetCursorPositionCall
    \/ InsertCharacterCall
    \/ NewlineCursorCall
    \/ IncrementCircularBufferCall
    \/ SetCurrentLineRenditionCall

SpecRenderer == InitRenderer /\ [][NextRenderer]_vars

GetHyperlinkIdAgainCall ==
    \E uri \in Uris :
        LET got == GetHyperlinkId(Self, uri, "")
        IN  Does("GetHyperlinkId", got.id, got.buf)

NextHyperlinkIds == GetHyperlinkIdAgainCall

SpecHyperlinkIds == InitFit /\ [][NextHyperlinkIds]_vars

\* C21: GetHyperlinkId without a custom id returns the current value of the
\* 16-bit counter and then advances it, going from 65535 to 1, so it never
\* returns the reserved id 0.
C21_CounterSkipsZero ==
    /\ [][ret'.op = "GetHyperlinkId" =>
             /\ ret'.arg = _currentHyperlinkId
             /\ _currentHyperlinkId' = IF _currentHyperlinkId = HyperlinkIdModulus - 1
                                       THEN 1 ELSE _currentHyperlinkId + 1]_vars
    /\ [](ret.op = "GetHyperlinkId" => ret.arg # 0)
    /\ [](_currentHyperlinkId # 0)

\* The counter has overflowed: the call returned 65535 and left the counter at 1.
C21_Witness ==
    /\ ret.op = "GetHyperlinkId"
    /\ ret.arg = HyperlinkIdModulus - 1
    /\ _currentHyperlinkId = 1

\* Two URIs whose hashes differ.
UrisApart == {"u", "v"}

\* A caller asks for the id of a URI under the custom id "c", while the
\* counter is low.
GetHyperlinkIdPairCall ==
    /\ _currentHyperlinkId < MaxHyperlinkId
    /\ \E uri \in UrisApart :
           LET got == GetHyperlinkId(Self, uri, "c")
           IN  Does("GetHyperlinkId", got.id, got.buf)

NextHyperlinkPairs ==
    \/ GetHyperlinkIdAgainCall
    \/ GetHyperlinkIdPairCall

SpecHyperlinkPairs == InitFit /\ [][NextHyperlinkPairs]_vars

\* C22: GetHyperlinkId returns different numeric ids for one custom id
\* paired with URIs whose hashes differ: no two pairs of custom id and URI
\* hash that are stored share a numeric id.
C22_PairsHaveDifferentIds ==
    \A k1 \in DOMAIN _hyperlinkCustomIdMap, k2 \in DOMAIN _hyperlinkCustomIdMap :
        k1 # k2 => _hyperlinkCustomIdMap[k1] # _hyperlinkCustomIdMap[k2]

\* ------------------------------------------------------------------ GetText
\* The text GetText returns is a sequence of strings, each a sequence of the
\* characters of cells and of these two:
UNICODE_CARRIAGERETURN == "CR"
UNICODE_LINEFEED == "LF"
UNICODE_SPACE == " "

MaxRects == 2

\* The copy loop of GetText over the cells x..right of a row: the characters
\* of the cells that are not trailing, appended to selectionText.
RECURSIVE GetTextCopy(_, _, _, _)
GetTextCopy(row, x, right, selectionText) ==
    IF x > right THEN selectionText
    ELSE GetTextCopy(row, x + 1, right,
                     IF row.chars[x + 1] # "w"
                     THEN Append(selectionText, row.chars[x + 1])
                     ELSE selectionText)

\* The trimming loop of GetText: pop_back while the text ends in a space.
RECURSIVE GetTextTrim(_)
GetTextTrim(selectionText) ==
    IF Len(selectionText) > 0 /\ selectionText[Len(selectionText)] = UNICODE_SPACE
    THEN GetTextTrim(SubSeq(selectionText, 1, Len(selectionText) - 1))
    ELSE selectionText

\* A GetText that formats every row.
ShouldFormatEveryRow(b, iRow, formatWrappedRows) == TRUE

\* shouldFormatRow of GetText
ShouldFormatRow(b, iRow, formatWrappedRows) ==
    formatWrappedRows \/ ~RowAt(b, iRow).wrapForced

\* The trimming step of GetText on the text copied from row iRow.
GetTextTrimmed(b, iRow, trimTrailingWhitespace, formatWrappedRows, selectionText) ==
    IF trimTrailingWhitespace /\ ShouldFormatRow(b, iRow, formatWrappedRows)
    THEN GetTextTrim(selectionText)
    ELSE selectionText

\* The CR/LF step of GetText for the i-th of rows rectangles (i from 1).
GetTextEnded(b, iRow, includeCRLF, formatWrappedRows, i, rows_, selectionText) ==
    IF includeCRLF /\ i < rows_ /\ ShouldFormatRow(b, iRow, formatWrappedRows)
    THEN selectionText \o <<UNICODE_CARRIAGERETURN, UNICODE_LINEFEED>>
    ELSE selectionText

\* One pass of the loop of GetText over the rectangles.
GetTextOfRect(b, includeCRLF, trimTrailingWhitespace, selectionRects, formatWrappedRows, i) ==
    GetTextEnded(b, selectionRects[i].top, includeCRLF, formatWrappedRows, i,
                 Len(selectionRects),
                 GetTextTrimmed(b, selectionRects[i].top, trimTrailingWhitespace,
                                formatWrappedRows,
                                GetTextCopy(RowAt(b, selectionRects[i].top),
                                            selectionRects[i].left,
                                            selectionRects[i].right, <<>>)))

\* TextBuffer::GetText(includeCRLF, trimTrailingWhitespace, selectionRects,
\* nullptr, formatWrappedRows): data.text.
GetText(b, includeCRLF, trimTrailingWhitespace, selectionRects, formatWrappedRows) ==
    [i \in 1..Len(selectionRects) |->
        GetTextOfRect(b, includeCRLF, trimTrailingWhitespace, selectionRects,
                      formatWrappedRows, i)]

\* The buffer after GetText has read the rows of the rectangles from i on.
RECURSIVE GetTextRowsRead(_, _, _)
GetTextRowsRead(b, selectionRects, i) ==
    IF i > Len(selectionRects) THEN b
    ELSE GetTextRowsRead(GetRowByOffset(b, selectionRects[i].top), selectionRects, i + 1)

\* The rectangles of one row each inside the buffer.
RowRects ==
    {r \in [top : 0..(_height - 1), left : 0..(_width - 1), right : 0..(_width - 1)] :
        r.left <= r.right}

\* The lists of up to MaxRects rectangles of rows that follow one another,
\* as a selection gives them.
SelectionRects ==
    {l \in UNION {[1..n -> RowRects] : n \in 1..MaxRects} :
        \A i \in 1..(Len(l) - 1) : l[i + 1].top = l[i].top + 1}

\* A caller asks for the text of a list of rectangles.
GetTextCall ==
    \E selectionRects \in SelectionRects,
       includeCRLF \in BOOLEAN, trimTrailingWhitespace \in BOOLEAN,
       formatWrappedRows \in BOOLEAN :
        /\ Install(GetTextRowsRead(Self, selectionRects, 1))
        /\ ret' = [op |-> "GetText",
                   arg |-> [includeCRLF |-> includeCRLF,
                            trimTrailingWhitespace |-> trimTrailingWhitespace,
                            selectionRects |-> selectionRects,
                            formatWrappedRows |-> formatWrappedRows],
                   value |-> GetText(Self, includeCRLF, trimTrailingWhitespace,
                                     selectionRects, formatWrappedRows)]
        /\ UNCHANGED s_lastMutationIdInitialValue

NextText ==
    \/ SetCursorPositionCall
    \/ InsertCharacterCall
    \/ GetTextCall

SpecText == Init /\ [][NextText]_vars

\* The cells of a rectangle that are not trailing halves.
NonTrailingCells(rect) ==
    SelectSeq(SubSeq(RowAt(Self, rect.top).chars, rect.left + 1, rect.right + 1),
              LAMBDA cell : ~IsTrailer(cell))

\* A text without the spaces it ends in.
WithoutTrailingSpaces(text) ==
    SubSeq(text, 1,
           CHOOSE k \in 0..Len(text) :
               /\ k > 0 => text[k] # " "
               /\ \A j \in (k + 1)..Len(text) : text[j] = " ")

\* The row of a rectangle is formatted under the caller's flag.
Formatted(rect, formatWrappedRows) ==
    formatWrappedRows \/ ~RowAt(Self, rect.top).wrapForced

\* The string the claim gives for the i-th rectangle of a call.
TextOfRect(arg, i) ==
    LET rect == arg.selectionRects[i]
        cells == NonTrailingCells(rect)
        text == IF arg.trimTrailingWhitespace /\ Formatted(rect, arg.formatWrappedRows)
                THEN WithoutTrailingSpaces(cells) ELSE cells
    IN  IF /\ arg.includeCRLF
           /\ i # Len(arg.selectionRects)
           /\ Formatted(rect, arg.formatWrappedRows)
        THEN text \o <<"CR", "LF">> ELSE text

\* C23: GetText over a list of rectangles of one row each returns one string
\* per rectangle, made of the row's cells that are not trailing; with
\* trimTrailingWhitespace the spaces the row ends in are removed and with
\* includeCRLF CR LF is appended to every row but the last, each only if the
\* row is not forced-wrapped or formatWrappedRows is set.
C23_GetTextPerRectangle ==
    ret.op = "GetText" =>
        /\ Len(ret.value) = Len(ret.arg.selectionRects)
        /\ \A i \in 1..Len(ret.value) : ret.value[i] = TextOfRect(ret.arg, i)

\* A row "a " that is not forced-wrapped, read whole with trimming, gives
\* "a" as the last string; the forced-wrapped row before it gets no CR LF.
C23_Witness ==
    /\ ret.op = "GetText"
    /\ ret.arg.trimTrailingWhitespace
    /\ ~ret.arg.formatWrappedRows
    /\ ret.arg.includeCRLF
    /\ Len(ret.arg.selectionRects) = 2
    /\ _width = 2
    /\ ret.arg.selectionRects[1] = [top |-> 0, left |-> 0, right |-> 1]
    /\ ret.arg.selectionRects[2] = [top |-> 1, left |-> 0, right |-> 1]
    /\ RowAt(Self, 0).wrapForced
    /\ ~RowAt(Self, 1).wrapForced
    /\ ret.value = << <<" ", "a">>, <<"a">> >>

\* C24: NewlineCursor sets the cursor column to 0 and the row to row + 1;
\* called with the cursor on the last row it leaves the cursor on the last
\* row and rotates the ring once: the former logical row 0 is reset to the
\* fill attributes and becomes logical row height - 1, every other row keeps
\* its content and moves up by one logical index, and firstRow becomes
\* (firstRow + 1) mod height. The cursor is on a row of the buffer before
\* the call.
C24_NewlineCursorRotatesOnce ==
    [][(ret'.op = "NewlineCursor" /\ _cursor.y \in 0..(_height - 1)) =>
          /\ _cursor'.x = 0
          /\ _height' = _height
          /\ IF _cursor.y = _height - 1
             THEN /\ _cursor'.y = _height - 1
                  /\ rotation'.count = rotation.count + 1
                  /\ _firstRow' = (_firstRow + 1) % _height
                  /\ _getRowSlot(Self, _height - 1)' = _getRowSlot(Self, 0)
                  /\ RowAt(Self, _height - 1)' = RowNew(_width, DefaultAttribute)
                  /\ \A y \in 0..(_height - 2) :
                         /\ _getRowSlot(Self, y)' = _getRowSlot(Self, y + 1)
                         /\ RowAt(Self, y)' = RowAt(Self, y + 1)
             ELSE /\ _cursor'.y = _cursor.y + 1
                  /\ _firstRow' = _firstRow
                  /\ rotation' = rotation
                  /\ \A y \in 0..(_height - 1) : RowAt(Self, y)' = RowAt(Self, y)]_vars

\* NewlineCursor on the last of two rows has rotated the ring: the text of
\* the former row 1 is in row 0, and row 1 is blank.
C24_Witness ==
    /\ ret.op = "NewlineCursor"
    /\ _height = 2
    /\ _firstRow = 1
    /\ rotation.count = 1
    /\ _cursor = [x |-> 0, y |-> 1]
    /\ RowAt(Self, 0).chars[1] = "a"
    /\ RowAt(Self, 1) = RowNew(_width, DefaultAttribute)

\* The width a row's rendition leaves of the buffer's width.
EffectiveWidth(y) ==
    IF RowAt(Self, y).lineRendition = "SingleWidth" THEN _width ELSE _width \div 2

\* C25: IncrementCursor advances the cursor column by one; exactly when the
\* new column passes the last column of the effective width of the cursor's
\* row (the width, or half of it for a row of double width) it sets the
\* forced-wrap flag of that row and performs NewlineCursor, which puts the
\* cursor in column 0 of the next row or, from the last row, rotates the
\* ring and moves the flagged row up by one; otherwise the row's wrap flag,
\* the cursor row and firstRow are unchanged. The cursor is on a row of the
\* buffer before the call.
C25_IncrementCursorWrapsPastWidth ==
    [][\A y \in 0..(_height - 1) :
          (ret'.op = "IncrementCursor" /\ _cursor.y = y) =>
              IF _cursor.x + 1 > EffectiveWidth(y) - 1
              THEN /\ _cursor'.x = 0
                   /\ IF y < _height - 1
                      THEN /\ _cursor'.y = y + 1
                           /\ RowAt(Self, y)'.wrapForced
                           /\ _firstRow' = _firstRow
                           /\ rotation' = rotation
                      ELSE /\ _cursor'.y = y
                           /\ rotation'.count = rotation.count + 1
                           /\ _firstRow' = (_firstRow + 1) % _height
                           /\ y >= 1 => RowAt(Self, y - 1)'.wrapForced
              ELSE /\ _cursor' = [x |-> _cursor.x + 1, y |-> y]
                   /\ RowAt(Self, y)'.wrapForced = RowAt(Self, y).wrapForced
                   /\ _firstRow' = _firstRow
                   /\ rotation' = rotation]_vars

\* IncrementCursor from column 0 of a row of double width in a buffer of two
\* columns has flagged the row and moved to the next row.
C25_Witness ==
    /\ ret.op = "IncrementCursor"
    /\ _width = 2
    /\ _height = 2
    /\ _firstRow = 0
    /\ _cursor = [x |-> 0, y |-> 1]
    /\ RowAt(Self, 0).lineRendition = "DoubleWidth"
    /\ RowAt(Self, 0).wrapForced

\* ------------------------------------------- the steps of a ring rotation
\* IncrementCircularBuffer taken statement by statement: ret.arg names the
\* statement that ran last and ret.value the fill attributes of the call.
RotationStep(step, fillAttributes) ==
    [op |-> "IncrementCircularBuffer", arg |-> step, value |-> fillAttributes]

\* A call of IncrementCircularBuffer is under way.
InRotation == ret.op = "IncrementCircularBuffer" /\ ret.arg # "_firstRow++"

\* A pruning that removes nothing.
PrunesNothing(b) == GetRowByOffset(b, 0)

\* The second statement of IncrementCircularBuffer.
PrunesHyperlinks(b) == _PruneHyperlinks(b)

\* if (_isActiveBuffer) _renderer.TriggerFlush(true): the call starts.
IncrementCircularBufferFlush ==
    /\ ~InRotation
    /\ MayMutate
    /\ \E fillAttributes \in FillAttributes :
           /\ Install(Trigger(Self, "TriggerFlush"))
           /\ ret' = RotationStep("TriggerFlush", fillAttributes)
    /\ UNCHANGED s_lastMutationIdInitialValue

\* _PruneHyperlinks()
IncrementCircularBufferPrune ==
    /\ InRotation
    /\ ret.arg = "TriggerFlush"
    /\ Install(PrunesHyperlinks(Self))
    /\ ret' = RotationStep("_PruneHyperlinks", ret.value)
    /\ UNCHANGED s_lastMutationIdInitialValue

\* GetMutableRowByOffset(0).Reset(fillAttributes)
IncrementCircularBufferReset ==
    /\ InRotation
    /\ ret.arg = "_PruneHyperlinks"
    /\ Install(MutateRow(Self, 0, LAMBDA r : RowReset(r, ret.value)))
    /\ ret' = RotationStep("Reset", ret.value)
    /\ UNCHANGED s_lastMutationIdInitialValue

\* _firstRow++, looping back to 0: the call returns.
IncrementCircularBufferAdvance ==
    /\ InRotation
    /\ ret.arg = "Reset"
    /\ Install([Self EXCEPT !.firstRow = FirstRowIncremented(Self),
                            !.rotation.count = @ + 1])
    /\ ret' = RotationStep("_firstRow++", ret.value)
    /\ UNCHANGED s_lastMutationIdInitialValue

\* Between the statements of a rotation no other call runs.
NextRotation ==
    \/ ~InRotation /\ SetAsActiveBufferCall
    \/ ~InRotation /\ GetHyperlinkIdCall
    \/ ~InRotation /\ AddHyperlinkToMapCall
    \/ ~InRotation /\ SetCurrentAttributesCall
    \/ ~InRotation /\ SetCursorPositionCall
    \/ ~InRotation /\ InsertCharacterCall
    \/ IncrementCircularBufferFlush
    \/ IncrementCircularBufferPrune
    \/ IncrementCircularBufferReset
    \/ IncrementCircularBufferAdvance

SpecRotation == InitRenderer /\ [][NextRotation]_vars

\* The hyperlink ids that only logical row 0 refers to.
OnlyInFirstRow ==
    RowGetHyperlinks(RowAt(Self, 0))
        \ UNION {RowGetHyperlinks(RowAt(Self, y)) : y \in 1..(_height - 1)}

\* The contents of the logical rows.
LogicalRows == [y \in 0..(_height - 1) |-> RowAt(Self, y)]

\* C26: every ring rotation flushes the renderer (only if the buffer is
\* active), then prunes the hyperlinks, then resets the recycled row, then
\* advances firstRow; the pruning reads the references of the recycled row
\* before that row is reset and before firstRow changes.
C26_RotationInOrder ==
    [][ret'.op = "IncrementCircularBuffer" =>
          /\ ret'.arg = "TriggerFlush" =>
                 /\ ~InRotation
                 /\ renderer' = IF _isActiveBuffer THEN <<"TriggerFlush">> ELSE <<>>
                 /\ LogicalRows' = LogicalRows
                 /\ _firstRow' = _firstRow
                 /\ _hyperlinkMap' = _hyperlinkMap
          /\ ret'.arg = "_PruneHyperlinks" =>
                 /\ ret.op = "IncrementCircularBuffer" /\ ret.arg = "TriggerFlush"
                 /\ renderer' = <<>>
                 /\ LogicalRows' = LogicalRows
                 /\ _firstRow' = _firstRow
                 /\ _hyperlinkMap' = [id \in DOMAIN _hyperlinkMap \ OnlyInFirstRow |->
                                         _hyperlinkMap[id]]
          /\ ret'.arg = "Reset" =>
                 /\ ret.op = "IncrementCircularBuffer" /\ ret.arg = "_PruneHyperlinks"
                 /\ renderer' = <<>>
                 /\ LogicalRows' = [LogicalRows EXCEPT ![0] = RowNew(_width, ret.value)]
                 /\ _firstRow' = _firstRow
                 /\ _hyperlinkMap' = _hyperlinkMap
          /\ ret'.arg = "_firstRow++" =>
                 /\ ret.op = "IncrementCircularBuffer" /\ ret.arg = "Reset"
                 /\ renderer' = <<>>
                 /\ rows' = rows
                 /\ _firstRow' = (_firstRow + 1) % _height
                 /\ _hyperlinkMap' = _hyperlinkMap]_vars

\* A rotation of an active buffer of two rows has ended that pruned the
\* hyperlink of the recycled row: the id is in no row and in no map.
C26_Witness ==
    /\ ret.op = "IncrementCircularBuffer"
    /\ ret.arg = "_firstRow++"
    /\ _isActiveBuffer
    /\ _height = 2
    /\ _firstRow = 1
    /\ _currentHyperlinkId = 2
    /\ _currentAttributes.link = 1
    /\ _hyperlinkMap = <<>>

\* The rotations of a buffer that is written row by row and calls
\* IncrementCircularBuffer each time the row to write is past the last row,
\* once the destination rows up to `written` are written.
RotationsWriting(height, written) == Max(0, written - (height - 1))

\* Reflow of the live buffer into a new buffer of a size.
ReflowedInto(newSize) ==
    Reflow(Self, NewTextBuffer(newSize[1], newSize[2], DefaultAttribute,
                               _isActiveBuffer, s_lastMutationIdInitialValue))

\* C27: when the walk of Reflow ends with newY past the new height, the
\* firstRow and the cursor row it computes in closed form are those of
\* repeated ring rotation: of a buffer that received the same destination
\* rows and called IncrementCircularBuffer each time the row to write was
\* past its last row (the cursor row compared where those rotations leave
\* the cursor's row in the buffer).
C27_ClosedFormIsRepeatedRotation ==
    \A newSize \in Sizes :
        (~ReflowedInto(newSize).diverged /\ ReflowedInto(newSize).newY > newSize[2]) =>
            /\ ReflowedInto(newSize).new.firstRow
                   = RotationsWriting(newSize[2], ReflowedInto(newSize).written) % newSize[2]
            /\ ReflowedInto(newSize).newCursorY
                   >= RotationsWriting(newSize[2], ReflowedInto(newSize).written)
               => ReflowedInto(newSize).new.cursor.y
                      = ReflowedInto(newSize).newCursorY
                            - RotationsWriting(newSize[2], ReflowedInto(newSize).written)

\* C28: once Reflow has computed the destination position of the cursor on
\* destination row c, the rest of the walk writes no destination row of
\* index c + newHeight or more: the row that holds the cursor is not
\* written over. The rows are written in rising order, so the highest row
\* written tells.
C28_CursorRowNotOverwritten ==
    \A newSize \in Sizes :
        ~ReflowedInto(newSize).diverged =>
            ReflowedInto(newSize).written < ReflowedInto(newSize).newCursorY + newSize[2]

\* ------------------------------------------ what Reflow copies verbatim
NextReflowCopies ==
    \/ StartPromptMarkCall
    \/ GetHyperlinkIdCall
    \/ AddHyperlinkToMapCall
    \/ ReflowCall

SpecReflowCopies == Init /\ [][NextReflowCopies]_vars

\* C29: after Reflow the marks of the new buffer are the marks of the old
\* buffer, with their coordinates and in their order, without those whose
\* start.y is outside [0, newHeight); the id-to-URI map, the custom-id map
\* and the next-id counter are those of the old buffer, so every hyperlink
\* id resolves to the URI it resolved to before.
C29_ReflowCopiesMarksAndHyperlinks ==
    [][\A newHeight \in 1..MaxHeight :
          (ret'.op = "Reflow" /\ _height' = newHeight) =>
              /\ _marks' = SelectSeq(_marks, LAMBDA m : m.start.y >= 0
                                                        /\ m.start.y < newHeight)
              /\ _hyperlinkMap' = _hyperlinkMap
              /\ _hyperlinkCustomIdMap' = _hyperlinkCustomIdMap
              /\ _currentHyperlinkId' = _currentHyperlinkId
              /\ \A id \in DOMAIN _hyperlinkMap : _hyperlinkMap'[id] = _hyperlinkMap[id]]_vars

\* Reflow into a buffer of one row has left one of the marks and the
\* hyperlink registered before it.
C29_Witness ==
    /\ ret.op = "Reflow"
    /\ _height = 1
    /\ s_lastMutationIdInitialValue = 2 * MutationIdStride
    /\ Len(_marks) = 1
    /\ _marks[1].start = [x |-> 0, y |-> 0]
    /\ _hyperlinkMap = (1 :> "u")
    /\ _hyperlinkCustomIdMap # <<>>
    /\ _currentHyperlinkId = 2

\* C30: whichever of SetCurrentLineRendition and ResetLineRenditionRange
\* changes the rendition of a row, the forced-wrap flag of that row is
\* clear afterwards.
C30_RenditionChangeClearsWrap ==
    [][\A y \in 0..(_height - 1) :
          (/\ ret'.op \in {"SetCurrentLineRendition", "ResetLineRenditionRange"}
           /\ RowAt(Self, y)'.lineRendition # RowAt(Self, y).lineRendition)
              => ~RowAt(Self, y)'.wrapForced]_vars

\* C31 as stated: after Reset every row reads as blank with the attributes
\* the buffer was created with.
C31_RowsReadWithCreationAttributes ==
    ret.op = "Reset" =>
        \A y \in 0..(_height - 1) : RowAt(Self, y) = RowNew(_width, DefaultAttribute)

\* C31: Reset decommits all rows: afterwards the watermark is back at the
\* base and no row is constructed; the initial attributes become the
\* attributes that were current at the call, and every row touched later
\* reads as blank with those.
C31_ResetDecommitsAndTakesCurrentAttributes ==
    [][ret'.op = "Reset" =>
          /\ _commitWatermark' = 0
          /\ \A s \in DOMAIN rows : constructed'[s] = 0 /\ rows'[s] = Unconstructed
          /\ _initialAttributes' = _currentAttributes
          /\ \A y \in 0..(_height - 1) :
                 RowAt(Self, y)' = RowNew(_width, _currentAttributes)]_vars

\* Reset of a buffer with text, called while the current attributes carry a
\* hyperlink: the rows are gone and the initial attributes carry the link.
C31_Witness ==
    /\ ret.op = "Reset"
    /\ _commitWatermark = 0
    /\ _lastMutationId > 0
    /\ _initialAttributes = TextAttribute(0, 1)

\* The cells from first to last in buffer order.
CellsBetween(b, first, last) ==
    {c \in [x : 0..(b.width - 1), y : 0..(b.height - 1)] :
        CompareInBounds(b, first, c) <= 0 /\ CompareInBounds(b, c, last) <= 0}

\* start and end delimit the maximal run of cells of p's delimiter class.
MaximalRun(b, p, start, end, wordDelimiters) ==
    LET class == _GetDelimiterClassAt(b, p, wordDelimiters)
        control == class = "ControlChar"
    IN  /\ CompareInBounds(b, start, p) <= 0
        /\ CompareInBounds(b, p, end) <= 0
        /\ CompareInBounds(b, end, BottomRightInclusive(b)) <= 0
        /\ \A c \in CellsBetween(b, start, end) :
               _GetDelimiterClassAt(b, c, wordDelimiters) = class
        /\ (start # Origin /\ ~(control /\ start.x = 0)) =>
               _GetDelimiterClassAt(b, DecrementInBounds(b, start), wordDelimiters) # class
        /\ (end # BottomRightInclusive(b) /\ ~(control /\ end.x = b.width - 1)) =>
               _GetDelimiterClassAt(b, IncrementInBounds(b, end), wordDelimiters) # class
        /\ control => start.y = p.y /\ end.y = p.y

\* C32: in selection mode GetWordStart(p) and GetWordEnd(p) delimit the
\* maximal run of cells that have p's delimiter class: the start is at or
\* before p and the end at or after it, every cell between them has p's
\* class, the cell before the start and the cell after the end have another
\* class unless the run ends at the first or last cell of the buffer or, for
\* ControlChar, at a margin of p's row, which a ControlChar run never passes.
C32_SelectionWordIsMaximalRun ==
    \A p \in Cells, wordDelimiters \in WordDelimiters :
        MaximalRun(Self, p, GetWordStart(Self, p, wordDelimiters, FALSE),
                   GetWordEnd(Self, p, wordDelimiters, FALSE), wordDelimiters)

\* GetWordStart has been asked in selection mode for a cell of the second
\* row that continues a run of glyphs from the first row: the answer is in
\* the first row, while blanks left in the buffer stay in their row.
C32_Witness ==
    /\ ret.op = "GetWordStart"
    /\ ~ret.arg.accessibilityMode
    /\ ret.arg.wordDelimiters = {}
    /\ _width = 2
    /\ ret.arg.target.y = 1
    /\ ret.value.y = 0
    /\ ret.value # Origin
    /\ _GetDelimiterClassAt(Self, Origin, {}) = "ControlChar"

\* end is one past the last cell of the word that holds p: p is before end,
\* the cells from p up to end belong to p's word, and the cell at end, when
\* there is one, does not.  In selection mode the word is the run of p's
\* class (cut by the row's margin for ControlChar); in accessibility mode it
\* is a readable run with the delimiters after it.
ExclusiveWordEnd(b, p, end, wordDelimiters, accessibilityMode) ==
    /\ CompareInBounds(b, p, end) < 0
    /\ CompareInBounds(b, end, EndExclusive(b)) <= 0
    /\ IF accessibilityMode
       THEN \/ end = EndExclusive(b)
            \/ /\ _GetDelimiterClassAt(b, end, wordDelimiters) = "RegularChar"
               /\ _GetDelimiterClassAt(b, DecrementInBounds(b, end), wordDelimiters)
                      # "RegularChar"
       ELSE /\ \A c \in CellsBetween(b, p, WalkInBounds(b, end, 0 - 1, TRUE)) :
                   _GetDelimiterClassAt(b, c, wordDelimiters)
                       = _GetDelimiterClassAt(b, p, wordDelimiters)
            /\ \/ end = EndExclusive(b)
               \/ _GetDelimiterClassAt(b, end, wordDelimiters)
                      # _GetDelimiterClassAt(b, p, wordDelimiters)
               \/ /\ _GetDelimiterClassAt(b, p, wordDelimiters) = "ControlChar"
                  /\ end.x = 0

C33_AccessibilityEndExclusive ==
    \A p \in Cells, wordDelimiters \in WordDelimiters :
        /\ CompareInBounds(Self, GetWordStart(Self, p, wordDelimiters, TRUE), p) <= 0
        /\ ExclusiveWordEnd(Self, p, GetWordEnd(Self, p, wordDelimiters, TRUE),
                            wordDelimiters, TRUE)

ScrollHeight == 3

\* The for loop of ScrollRows: row y is copied to row y + delta, then y moves
\* on by step, until y is end.
RECURSIVE ScrollRowsLoop(_, _, _, _, _)
ScrollRowsLoop(b, y, end, step, delta) ==
    IF y = end THEN b
    ELSE LET source == RowAt(b, y)
             touched == GetRowByOffset(GetMutableRowByOffset(b, y + delta), y)
         IN  ScrollRowsLoop([touched EXCEPT !.rows[_getRowSlot(b, y + delta)] =
                                                RowCopyFrom(@, source)],
                            y + step, end, step, delta)

\* A ScrollRows that copies in ascending order whatever the sign of delta.
ScrollRowsAscending(b, firstRow, size, delta) ==
    IF delta = 0 THEN b
    ELSE ScrollRowsLoop(b, firstRow, firstRow + Max(0, size), 1, delta)

\* TextBuffer::ScrollRows(firstRow, size, delta)
ScrollRows(b, firstRow, size, delta) ==
    IF delta = 0 THEN b
    ELSE IF delta < 0
    THEN ScrollRowsLoop(b, firstRow, firstRow + Max(0, size), 1, delta)
    ELSE ScrollRowsLoop(b, firstRow + Max(0, size) - 1, firstRow - 1, 0 - 1, delta)

\* No ScrollRows starts on a buffer that has seen this many mutations.
MaxScrollMutations == 3

\* size rows from firstRow on are moved by delta rows.
ScrollRowsCall ==
    /\ MutationCount < MaxScrollMutations
    /\ \E firstRow \in 0..(_height - 1), size \in (0 - 1)..(_height),
          delta \in (1 - _height)..(_height - 1) :
           Does("ScrollRows", [firstRow |-> firstRow, size |-> size, delta |-> delta],
                ScrollRows(Self, firstRow, size, delta))

InitScroll ==
    \E width \in 1..MaxWidth :
        /\ StartsAs(NewTextBuffer(width, ScrollHeight, DefaultAttribute, TRUE, 0))
        /\ s_lastMutationIdInitialValue = MutationIdStride
        /\ ret = Called("TextBuffer", 0)

NextScroll ==
    \/ SetCursorPositionCall
    \/ InsertCharacterCall
    \/ SetCurrentLineRenditionCall
    \/ IncrementCircularBufferCall
    \/ ScrollRowsCall

SpecScroll == InitScroll /\ [][NextScroll]_vars

\* What a row holds for its readers: the text of its readable columns, the
\* attributes, the wrap flag and the line rendition.
RowContent(row) ==
    [chars |-> SubSeq(row.chars, 1, RowGetReadableColumnCount(row)),
     attr |-> row.attr,
     wrapForced |-> row.wrapForced,
     lineRendition |-> row.lineRendition]

\* No glyph of the row is cut by the end of its readable columns, so that
\* the readable text is made of whole glyphs, which is what ROW::CopyFrom
\* hands over.
RowReadsWhole(row) ==
    \/ RowGetReadableColumnCount(row) = Len(row.chars)
    \/ ~IsTrailer(row.chars[RowGetReadableColumnCount(row) + 1])

MaxWriteLength == 2

\* No iteration of _writeCharsLegacyUnprocessed starts on a buffer that has
\* seen this many mutations.
MaxWriteMutations == 6

\* No WriteCharsLegacy starts on a buffer that has seen more mutations
\* than this.
MaxWrittenBefore == 1

\* The characters of the texts written: a narrow glyph, a glyph of two
\* columns, and the two control characters that move the cursor.
WriteCharacters == {"a", "W", UNICODE_LINEFEED, UNICODE_CARRIAGERETURN}

RECURSIVE WriteTextsOfLength(_)
WriteTextsOfLength(n) ==
    IF n = 0 THEN {<<>>}
    ELSE {Append(t, c) : t \in WriteTextsOfLength(n - 1), c \in WriteCharacters}

WriteTexts == UNION {WriteTextsOfLength(n) : n \in 0..MaxWriteLength}

\* IS_GLYPH_CHAR(wch)
IS_GLYPH_CHAR(wch) == wch \notin {UNICODE_LINEFEED, UNICODE_CARRIAGERETURN}

\* The loop of ROW::ReplaceText from column col on: the glyphs of the text
\* are written one after the other for as long as they fit before the end
\* of the row, which is where columnLimit is; a glyph of two columns that
\* does not fit is not consumed and the column left is blanked.  columnEnd
\* is the column after the last glyph when the text is used up and
\* columnLimit when text remains.
RECURSIVE RowReplaceTextFrom(_, _, _, _)
RowReplaceTextFrom(row, col, columnLimit, text) ==
    IF text = <<>> THEN [row |-> row, text |-> text, columnEnd |-> col]
    ELSE LET width == IF Head(text) = "W" THEN 2 ELSE 1
         IN  IF width > columnLimit - col
             THEN [row |-> RowReplaceCharacters(row, col, width, Head(text)),
                   text |-> text, columnEnd |-> columnLimit]
             ELSE RowReplaceTextFrom(RowReplaceCharacters(row, col, width, Head(text)),
                                     col + width, columnLimit, Tail(text))

\* ROW::ReplaceText(state): nothing happens when the column range or the
\* text is empty.
RowReplaceText(row, columnBegin, columnLimit, text) ==
    LET colBeg == ClampedColumnInclusive(row, columnBegin)
        colLimit == ClampedColumnInclusive(row, columnLimit)
    IN  IF colBeg < colLimit /\ text # <<>>
        THEN RowReplaceTextFrom(row, colBeg, colLimit, text)
        ELSE [row |-> row, text |-> text, columnEnd |-> colBeg]

\* TextBuffer::Write(row, attributes, state): the buffer after the call, and
\* state.text and state.columnEnd.
Write(b, row, attributes, columnBegin, columnLimit, text) ==
    LET replaced == RowReplaceText(RowAt(b, row), columnBegin, columnLimit, text)
        written(r) == RowReplaceAttributes(replaced.row, columnBegin, replaced.columnEnd,
                                           attributes)
    IN  [b |-> Trigger(MutateRow(b, row, written), "TriggerRedraw"),
         text |-> replaced.text, columnEnd |-> replaced.columnEnd]

\* AdjustCursorPosition: the cursor coordCursor as it is set in the end. At
\* the end of a line the cursor wraps in wrap mode and stays in its column
\* otherwise.
AdjustedCursor(b, coordCursor) ==
    IF coordCursor.x < 0
    THEN IF coordCursor.y > 0
         THEN [x |-> b.width + coordCursor.x, y |-> coordCursor.y - 1]
         ELSE [x |-> 0, y |-> coordCursor.y]
    ELSE IF coordCursor.x >= b.width
    THEN IF ENABLE_WRAP_AT_EOL_OUTPUT \in b.screenInfo.OutputMode
         THEN [x |-> coordCursor.x % b.width,
               y |-> coordCursor.y + coordCursor.x \div b.width]
         ELSE [x |-> b.cursor.x, y |-> coordCursor.y]
    ELSE coordCursor

\* An AdjustCursorPosition that wraps the cursor at the end of a line
\* whatever the output mode.
AdjustedCursorWrapping(b, coordCursor) ==
    AdjustedCursor([b EXCEPT !.screenInfo.OutputMode = @ \cup {ENABLE_WRAP_AT_EOL_OUTPUT}],
                   coordCursor)

\* AdjustCursorPosition(screenInfo, coordCursor, psScrollY): below the last
\* row the ring rotates once, the renderer hears of the scroll, and the
\* cursor stays in the last row.
AdjustCursorPosition(b, coordCursor) ==
    LET adjusted == AdjustedCursor(b, coordCursor)
    IN  IF adjusted.y >= b.height
        THEN [Trigger(IncrementCircularBuffer(b, b.currentAttributes), "TriggerScroll")
                 EXCEPT !.cursor = [x |-> adjusted.x, y |-> b.height - 1]]
        ELSE [b EXCEPT !.cursor = adjusted]

\* One iteration of the loop of _writeCharsLegacyUnprocessed.
WriteIteration(b) ==
    LET cursorPosition == b.cursor
        columnLimit == b.width
        w == Write(b, cursorPosition.y, b.currentAttributes, cursorPosition.x, columnLimit,
                   b.writing.text)
        wrapped == IF /\ ENABLE_WRAP_AT_EOL_OUTPUT \in b.screenInfo.OutputMode
                      /\ w.columnEnd >= columnLimit
                   THEN SetWrapForced(w.b, cursorPosition.y, TRUE)
                   ELSE w.b
    IN  [AdjustCursorPosition(wrapped, [x |-> w.columnEnd, y |-> cursorPosition.y])
            EXCEPT !.writing.text = w.text]

\* A beginning of WriteCharsLegacy that resets a delayed wrap and leaves
\* the cursor where it is.
ResetDelayedEOLWrap(b) ==
    IF b.screenInfo.delayedEOLWrap /\ ENABLE_WRAP_AT_EOL_OUTPUT \in b.screenInfo.OutputMode
    THEN [b EXCEPT !.screenInfo.delayedEOLWrap = FALSE,
                   !.writing.delayed = IF b.screenInfo.delayedAt = b.cursor
                                       THEN "consumed" ELSE "reset"]
    ELSE b

\* The beginning of WriteCharsLegacy: a delayed wrap is reset, and consumed
\* when it was recorded where the cursor is.
ConsumeDelayedEOLWrap(b) ==
    IF b.screenInfo.delayedEOLWrap /\ ENABLE_WRAP_AT_EOL_OUTPUT \in b.screenInfo.OutputMode
    THEN LET reset == [b EXCEPT !.screenInfo.delayedEOLWrap = FALSE]
         IN  IF b.screenInfo.delayedAt = b.cursor
             THEN [AdjustCursorPosition(reset, [x |-> 0, y |-> b.cursor.y + 1])
                      EXCEPT !.writing.delayed = "consumed"]
             ELSE [reset EXCEPT !.writing.delayed = "reset"]
    ELSE b

\* WriteCharsLegacy(screenInfo, text, psScrollY) up to its loop: without
\* ENABLE_PROCESSED_OUTPUT all the text goes to _writeCharsLegacyUnprocessed.
WriteCharsLegacy(b, text) ==
    LET begun == [b EXCEPT !.writing =
                     [NotWriting EXCEPT !.given = text,
                                        !.from = [y |-> b.cursor.y,
                                                  rotations |-> b.rotation.count]]]
        consumed == ConsumeDelayedEOLWrap(begun)
    IN  IF ENABLE_PROCESSED_OUTPUT \in b.screenInfo.OutputMode
        THEN [consumed EXCEPT !.writing.it = text]
        ELSE [consumed EXCEPT !.writing.text = text]

\* The length of the run of glyph characters a text begins with.
RECURSIVE GlyphRun(_)
GlyphRun(text) ==
    IF text # <<>> /\ IS_GLYPH_CHAR(Head(text)) THEN 1 + GlyphRun(Tail(text)) ELSE 0

\* The loop of WriteCharsLegacy finds glyph characters at `it`: they go to
\* _writeCharsLegacyUnprocessed.
WriteGlyphs(b) ==
    LET n == GlyphRun(b.writing.it)
    IN  [b EXCEPT !.writing.text = SubSeq(b.writing.it, 1, n),
                  !.writing.it = SubSeq(b.writing.it, n + 1, Len(b.writing.it))]

\* case UNICODE_LINEFEED
WriteLinefeed(b) ==
    LET pos == b.cursor
        x == IF DISABLE_NEWLINE_AUTO_RETURN \notin b.screenInfo.OutputMode THEN 0 ELSE pos.x
        unwrapped == MutateRow(b, pos.y, LAMBDA r : [r EXCEPT !.wrapForced = FALSE])
    IN  AdjustCursorPosition(unwrapped, [x |-> x, y |-> pos.y + 1])

\* case UNICODE_CARRIAGERETURN
WriteCarriageReturn(b) == AdjustCursorPosition(b, [x |-> 0, y |-> b.cursor.y])

\* The loop of WriteCharsLegacy finds a control character at `it`.
WriteControl(b) ==
    LET wch == Head(b.writing.it)
        handled == IF wch = UNICODE_LINEFEED THEN WriteLinefeed(b) ELSE WriteCarriageReturn(b)
    IN  [handled EXCEPT !.writing.it = Tail(b.writing.it),
                        !.writing.handled = Append(@, wch)]

\* A WriteCharsLegacy is in progress.
InWrite == writing.it # <<>> \/ writing.text # <<>>

\* Another WriteCharsLegacy may start, or be prepared.
MayWrite == ~InWrite /\ MutationCount <= MaxWrittenBefore

\* SCREEN_INFORMATION::OutputMode is set.
SetOutputModeCall ==
    /\ MayWrite
    /\ \E mode \in SUBSET {ENABLE_PROCESSED_OUTPUT, ENABLE_WRAP_AT_EOL_OUTPUT,
                           DISABLE_NEWLINE_AUTO_RETURN} :
           Does("SetOutputMode", mode, [Self EXCEPT !.screenInfo.OutputMode = mode])

\* Cursor::DelayEOLWrap: a wrap at the end of the line is put off and the
\* position it belongs to recorded.
DelayEOLWrapCall ==
    /\ MayWrite
    /\ \E pos \in Positions :
           Does("DelayEOLWrap", pos,
                [Self EXCEPT !.screenInfo.delayedEOLWrap = TRUE,
                             !.screenInfo.delayedAt = pos])

\* The cursor is put somewhere between two writes.
SetCursorPositionBetweenWrites ==
    /\ MayWrite
    /\ SetCursorPositionCall

WriteCharsLegacyCall ==
    /\ MayWrite
    /\ \E text \in WriteTexts :
           Does("WriteCharsLegacy", text, WriteCharsLegacy(Self, text))

_writeCharsLegacyUnprocessedIteration ==
    /\ writing.text # <<>>
    /\ MutationCount < MaxWriteMutations
    /\ Does("_writeCharsLegacyUnprocessed", writing.text, WriteIteration(Self))

WriteCharsLegacyGlyphs ==
    /\ writing.text = <<>>
    /\ writing.it # <<>>
    /\ IS_GLYPH_CHAR(Head(writing.it))
    /\ Does("WriteCharsLegacy glyphs", writing.it, WriteGlyphs(Self))

WriteCharsLegacyControl ==
    /\ writing.text = <<>>
    /\ writing.it # <<>>
    /\ ~IS_GLYPH_CHAR(Head(writing.it))
    /\ Does("WriteCharsLegacy control", writing.it, WriteControl(Self))

NextStream ==
    \/ SetOutputModeCall
    \/ DelayEOLWrapCall
    \/ SetCursorPositionBetweenWrites
    \/ WriteCharsLegacyCall
    \/ _writeCharsLegacyUnprocessedIteration
    \/ WriteCharsLegacyGlyphs
    \/ WriteCharsLegacyControl

SpecStream == Init /\ [][NextStream]_vars

\* The rows the cursor has come down since the WriteCharsLegacy in progress
\* started, those the ring has rotated by included.
RowsAdvanced == (_cursor.y + rotation.count) - (writing.from.y + writing.from.rotations)

\* C35: a WriteCharsLegacy that starts in wrap-at-EOL mode while a delayed
\* end-of-line wrap is pending resets the flag; when the wrap was recorded
\* at the cursor's position it first moves the cursor to column 0 of the next
\* row, rotating the ring when the cursor is in the last row, and leaves the
\* cursor where it is otherwise; a linefeed the text begins with then moves
\* the cursor down once more, two rows in all.
C35_DelayedWrapConsumedFirst ==
    [][/\ (/\ ret'.op = "WriteCharsLegacy"
           /\ screenInfo.delayedEOLWrap
           /\ ENABLE_WRAP_AT_EOL_OUTPUT \in screenInfo.OutputMode) =>
              /\ ~screenInfo'.delayedEOLWrap
              /\ IF screenInfo.delayedAt = _cursor
                 THEN /\ _cursor' = [x |-> 0, y |-> Min(_cursor.y + 1, _height - 1)]
                      /\ rotation'.count = rotation.count
                                             + (IF _cursor.y = _height - 1 THEN 1 ELSE 0)
                      /\ _firstRow' = IF _cursor.y = _height - 1
                                      THEN (_firstRow + 1) % _height ELSE _firstRow
                 ELSE /\ _cursor' = _cursor
                      /\ _firstRow' = _firstRow
                      /\ rotation' = rotation
       /\ (/\ ret'.op = "WriteCharsLegacy control"
           /\ writing'.delayed = "consumed"
           /\ Head(writing'.given) = UNICODE_LINEFEED
           /\ writing'.handled = <<UNICODE_LINEFEED>>) =>
              RowsAdvanced' = 2]_vars

\* A text that begins with a linefeed was written in wrap-at-EOL mode with
\* the cursor in the last of two rows and a delayed wrap pending at the
\* cursor: the linefeed has been handled and the ring has rotated twice.
C35_Witness ==
    /\ ret.op = "WriteCharsLegacy control"
    /\ writing.delayed = "consumed"
    /\ Head(writing.given) = UNICODE_LINEFEED
    /\ writing.handled = <<UNICODE_LINEFEED>>
    /\ _height = 2
    /\ writing.from.y = 1
    /\ rotation.count = writing.from.rotations + 2
    /\ _cursor.y = 1

\* What the loop of _writeCharsLegacyUnprocessed reads: the text that
\* remains, the cursor, the rows and where the ring starts, the size and
\* the output mode.
WriteLoopState ==
    <<writing.text, _cursor, rows, _firstRow, _width, _height, screenInfo.OutputMode,
      _currentAttributes>>

\* C38: _writeCharsLegacyUnprocessed terminates for every text, width and
\* output mode, also without wrap-at-EOL at the end of a row and for a glyph
\* of two columns that does not fit: no iteration of its loop leaves text to
\* write and all that the next iteration reads as it was, for such an
\* iteration is followed by itself for ever.
C38_WriteLoopTerminates ==
    [][(ret'.op = "_writeCharsLegacyUnprocessed" /\ writing'.text # <<>>) =>
           WriteLoopState' # WriteLoopState]_vars

\* What a reader observes through the logical rows: the size and every row
\* as GetRowByOffset returns it, top to bottom.
ObservedRows == <<_width, _height, [y \in 0..(_height - 1) |-> RowAt(Self, y)]>>

\* C36: every operation that changes what a reader observes through the
\* logical rows (text, attributes, wrap flags, a rotation of the ring, Reset,
\* ResizeTraditional) strictly increases the mutation counter, so that an
\* unchanged counter implies unchanged content.
C36_ChangeIncreasesMutationId ==
    [][ObservedRows' # ObservedRows => _lastMutationId' > _lastMutationId]_vars

\* The logical rows that hold written text: rows that are committed and are
\* not blank.
RowsHoldingText ==
    {y \in 0..(_height - 1) :
        /\ _getRowSlot(Self, y) < _commitWatermark
        /\ RowMeasureRight(rows[_getRowSlot(Self, y)]) > 0}

\* C37: whatever _firstRow is and in whatever order the rows were touched,
\* every logical row that was written through GetMutableRowByOffset has a
\* logical index of at most _estimateOffsetOfLastCommittedRow(), so that
\* SearchText and GetLastNonSpaceCharacter, which stop at the estimate, skip
\* no row that holds written text.
C37_WrittenRowsWithinEstimate ==
    \A y \in RowsHoldingText : y <= _estimateOffsetOfLastCommittedRow(Self)

\* ------------------------------------------ the viewport tops of Reflow
\* The caller reflows the live buffer into a buffer of the new size and
\* hands in the top rows of the mutable and of the visible viewport, neither
\* of them below the cursor's row.
ReflowWithPositionsCall ==
    /\ MayConstruct
    /\ \E newSize \in Sizes, mutableViewportTop \in 0..(_cursor.y),
          visibleViewportTop \in 0..(_cursor.y) :
           LET newBuffer == NewTextBuffer(newSize[1], newSize[2], DefaultAttribute,
                                          _isActiveBuffer, s_lastMutationIdInitialValue)
               given == [mutableViewportTop |-> mutableViewportTop,
                         visibleViewportTop |-> visibleViewportTop]
               reflow == ReflowWithPositions(Self, newBuffer, given)
           IN  /\ ~reflow.diverged
               /\ Install(reflow.new)
               /\ ret' = [op |-> "Reflow", arg |-> newSize[2], given |-> given,
                          newY |-> reflow.newY, positionInfo |-> reflow.positionInfo]
               /\ s_lastMutationIdInitialValue'
                      = s_lastMutationIdInitialValue + MutationIdStride

NextReflowPositions ==
    \/ SetCursorPositionCall
    \/ InsertCharacterCall
    \/ SetWrapForcedCall
    \/ ReflowWithPositionsCall

SpecReflowPositions == Init /\ [][NextReflowPositions]_vars

\* C39: after Reflow each viewport top handed back through positionInfo is a
\* row of the new buffer, in [0, newHeight), in the logical coordinates the
\* new cursor position is in, so that a top that was not below the cursor's
\* row is not below it afterwards, also when the walk ended past the new
\* height and _firstRow was corrected.
C39_ViewportTopsInNewBuffer ==
    (ret.op = "Reflow" /\ "positionInfo" \in DOMAIN ret) =>
        /\ ret.positionInfo.mutableViewportTop \in 0..(_height - 1)
        /\ ret.positionInfo.visibleViewportTop \in 0..(_height - 1)
        /\ ret.positionInfo.mutableViewportTop <= _cursor.y
        /\ ret.positionInfo.visibleViewportTop <= _cursor.y

\* ------------------------------------------- hyperlink ids handed out again
\* The highest id whose registration is followed, and the row mutations
\* that are followed beside the calls of GetHyperlinkId.
MaxRegisteredId == 1
MaxLinkedMutations == 2

\* A caller registers a URI under the id GetHyperlinkId has just returned.
AddHyperlinkToMapReturnedCall ==
    /\ ret.op = "GetHyperlinkId"
    /\ ret.arg <= MaxRegisteredId
    /\ \E uri \in UrisApart :
           Does("AddHyperlinkToMap", ret.arg, AddHyperlinkToMap(Self, uri, ret.arg))

\* One narrow glyph is inserted at the cursor with the current attributes;
\* the one inserted in the last column moves the cursor past the last row,
\* which rotates the ring.
InsertLinkedCharacterCall ==
    /\ MutationCount < MaxLinkedMutations
    /\ Does("InsertCharacter", "Single",
            InsertCharacter(Self, "a", "Single", _currentAttributes))

NextHyperlinkWrap ==
    \/ GetHyperlinkIdAgainCall
    \/ AddHyperlinkToMapReturnedCall
    \/ SetCurrentAttributesCall
    \/ InsertLinkedCharacterCall

\* One new buffer of one row of two columns: a glyph written in the first
\* column stays in the row.
InitHyperlinkWrap ==
    /\ StartsAs(NewTextBuffer(2, 1, DefaultAttribute, TRUE, 0))
    /\ s_lastMutationIdInitialValue = MutationIdStride
    /\ ret = Called("TextBuffer", 0)

SpecHyperlinkWrap == InitHyperlinkWrap /\ [][NextHyperlinkWrap]_vars

\* C40: GetHyperlinkId never hands out a numeric id that is still in the
\* registry, also after the 16-bit counter has wrapped around, and
\* AddHyperlinkToMap never replaces the URI of an id that a row still
\* references, so that two hyperlinks with different URIs that live rows
\* reference never share one numeric id.
C40_IdsInUseNotHandedOut ==
    /\ [](ret.op = "GetHyperlinkId" => ret.arg \notin DOMAIN _hyperlinkMap)
    /\ [][ret'.op = "AddHyperlinkToMap" =>
             \A id \in ReferencedIds \cap DOMAIN _hyperlinkMap :
                 _hyperlinkMap'[id] = _hyperlinkMap[id]]_vars
====
